---- MODULE Spec2Model ----
(***************************************************************************)
(* Patient / therapy-session service layer of the record-keeping           *)
(* application: soft delete, restore, payment toggle, audit log and the    *)
(* dashboard query, over the three tables persons, therapy_sessions and    *)
(* audit_logs.                                                             *)
(*                                                                         *)
(* Every service method is a function from the stored tables and the       *)
(* call's arguments to the tables it leaves behind and the tuple it        *)
(* returns; the actions apply these functions to the stored tables.        *)
(***************************************************************************)
EXTENDS Integers, Sequences, FiniteSets, TLC

VARIABLES persons, therapy_sessions, audit_logs, users, audit_write_fails,
          in_flight, login_session

vars == <<persons, therapy_sessions, audit_logs, users, audit_write_fails,
          in_flight, login_session>>

(***************************************************************************)
(* Bounds of the model.                                                    *)
(***************************************************************************)
MaxPersons == 2
MaxSessions == 2
MaxAudit == 2
MaxAge == 3
MaxUsers == 2
MaxRequests == 2
Today == 10

(***************************************************************************)
(* Program constants.                                                      *)
(***************************************************************************)
MaxAdvanceDays == 7

NULL == 0

\* The present instant.  deleted_at holds it as a mark; the audit timestamps
\* are days counted from it, so a row written k days ago holds utcnow - k.
utcnow == 1

ALLOW_DELETE == TRUE

ALL_FILTER == "all"
PENDING_FILTER == "pending"
PAID_FILTER == "paid"

CREATE == "CREATE"
UPDATE == "UPDATE"
DELETE == "DELETE"
SOFT_DELETE == "SOFT_DELETE"
RESTORE == "RESTORE"
LOGIN == "LOGIN"
LOGOUT == "LOGOUT"
LOGIN_FAILED == "LOGIN_FAILED"
PASSWORD_RESET == "PASSWORD_RESET"

ADMIN == "admin"
THERAPIST == "therapist"
VIEWER == "viewer"

\* The testing configuration: any email may register.
ALLOWED_EMAILS == {}


(***************************************************************************)
(* Inputs of the calls.  A name is a sequence of characters, so that       *)
(* leading and trailing blanks are real; a price is a number of cents; a   *)
(* date is a day number.                                                   *)
(***************************************************************************)
Names == {<<>>, <<" ">>, <<"a">>, <<" ", "a">>, <<"a", " ">>, <<"b">>}
UserIds == {NULL, 1}
Prices == {-1, 0, 1, 2}
Dates == {Today - 1, Today + MaxAdvanceDays, Today + MaxAdvanceDays + 1}
PendingArgs == {"None", "True", "False"}
Notes == {"None", "n"}
DaysArgs == {0, 1, 2}
ElapsedDays == {1, 2}
Emails == {<<>>, <<"u">>, <<"U", " ">>, <<"v">>}
Passwords == {"", "p", "q"}
SecurityAnswers == {<<"1990", "-08-17">>, <<"1990">>}
UserRowIds == 1..MaxUsers
RequestIds == 1..MaxRequests
PersonIds == 1..MaxPersons
SessionIds == 1..MaxSessions

(***************************************************************************)
(* Helpers.                                                                *)
(***************************************************************************)
PyBool(b) == IF b THEN "True" ELSE "False"

NoValues == [k \in {} |-> NULL]

RECURSIVE lstrip(_)
lstrip(s) == IF s # <<>> /\ Head(s) = " " THEN lstrip(Tail(s)) ELSE s

RECURSIVE rstrip(_)
rstrip(s) ==
    IF s # <<>> /\ s[Len(s)] = " " THEN rstrip(SubSeq(s, 1, Len(s) - 1)) ELSE s

\* Variant: the name is used as typed.
strip_missing(s) == s

strip(s) == rstrip(lstrip(s))

MaxOf(S) == CHOOSE m \in S : \A x \in S : x <= m

\* Integer primary key of a new row.
next_id(table) == IF DOMAIN table = {} THEN 1 ELSE MaxOf(DOMAIN table) + 1

\* sum(s.session_price for s in sessions), sessions a set of row ids.
RECURSIVE sum_session_price(_, _)
sum_session_price(table, sessions) ==
    IF sessions = {} THEN 0
    ELSE LET s == CHOOSE x \in sessions : TRUE
         IN  table[s].session_price + sum_session_price(table, sessions \ {s})

\* The tables as one value.
db == [persons |-> persons,
       therapy_sessions |-> therapy_sessions,
       audit_logs |-> audit_logs,
       users |-> users,
       audit_write_fails |-> audit_write_fails]

Outcome(d, ret) == [db |-> d, ret |-> ret]

(***************************************************************************)
(* SoftDeleteMixin.                                                        *)
(***************************************************************************)
is_deleted(row) == row.deleted_at # NULL

soft_delete(row, user_id) ==
    [row EXCEPT !.deleted_at = utcnow,
                !.deleted_by_id = IF user_id # NULL THEN user_id ELSE @]

\* Variant: the mark is cleared, who set it is kept.
restore_deleted_at(row) == [row EXCEPT !.deleted_at = NULL]

restore(row) == [row EXCEPT !.deleted_at = NULL, !.deleted_by_id = NULL]

query_active(table) == {id \in DOMAIN table : table[id].deleted_at = NULL}

query_deleted(table) == {id \in DOMAIN table : table[id].deleted_at # NULL}

(***************************************************************************)
(* Person.                                                                 *)
(***************************************************************************)
Person(name) == [name |-> name, deleted_at |-> NULL, deleted_by_id |-> NULL]

\* Variant: the cascade loop is missing.
person_therapy_sessions_skipped(d, person_id) == {}

\* Person.therapy_sessions: every session row of the person.
person_therapy_sessions(d, person_id) ==
    {sid \in DOMAIN d.therapy_sessions :
        d.therapy_sessions[sid].person_id = person_id}

\* Person.pending_sessions / paid_sessions: therapy_sessions.filter_by(pending).
Person_pending_sessions(d, person_id) ==
    {sid \in person_therapy_sessions(d, person_id) :
        d.therapy_sessions[sid].pending}

Person_paid_sessions(d, person_id) ==
    {sid \in person_therapy_sessions(d, person_id) :
        ~d.therapy_sessions[sid].pending}

Person_pending_total(d, person_id) ==
    sum_session_price(d.therapy_sessions, Person_pending_sessions(d, person_id))

Person_total_paid(d, person_id) ==
    sum_session_price(d.therapy_sessions, Person_paid_sessions(d, person_id))

Person_total_sessions_value(d, person_id) ==
    sum_session_price(d.therapy_sessions, person_therapy_sessions(d, person_id))

get_by_name(d, name) ==
    {id \in query_active(d.persons) : d.persons[id].name = name}

\* Variant: the column is not declared unique.
IntegrityError_never(table) == FALSE

\* persons.name is declared unique: a commit that leaves two rows with one
\* name raises IntegrityError.
IntegrityError(table) ==
    \E i, j \in DOMAIN table : i # j /\ table[i].name = table[j].name

(***************************************************************************)
(* AuditLog.                                                               *)
(***************************************************************************)
\* Variant: the newest row is overwritten instead of a row being added.
AuditLog_log_overwriting(d, action, table_name, record_id, user_id, old_values, new_values) ==
    [d EXCEPT !.audit_logs =
        SubSeq(@, 1, Len(@) - 1) \o
            <<[action |-> action,
               table_name |-> table_name,
               record_id |-> record_id,
               user_id |-> user_id,
               old_values |-> old_values,
               new_values |-> new_values,
               timestamp |-> utcnow]>>]

\* Variant: the row is built but never added.
AuditLog_log_dropped(d, action, table_name, record_id, user_id, old_values, new_values) ==
    d

AuditLog_log(d, action, table_name, record_id, user_id, old_values, new_values) ==
    [d EXCEPT !.audit_logs =
        Append(@, [action |-> action,
                   table_name |-> table_name,
                   record_id |-> record_id,
                   user_id |-> user_id,
                   old_values |-> old_values,
                   new_values |-> new_values,
                   timestamp |-> utcnow])]

\* The commit of the audit row raises (the database refuses the write).
AuditLog_log_raises(d) == d.audit_write_fails

\* Variant: the rollback also takes back what was committed before.
rollback_all(d, committed) == d

\* db.session.rollback() in the except branch: the work since the last
\* commit is dropped, the committed tables stay.
rollback(d, committed) == committed

AuditLog_log_create(d, table_name, record_id, new_values, user_id) ==
    AuditLog_log(d, CREATE, table_name, record_id, user_id, NoValues, new_values)

AuditLog_log_update(d, table_name, record_id, old_values, new_values, user_id) ==
    AuditLog_log(d, UPDATE, table_name, record_id, user_id, old_values, new_values)

\* Variant: a row stamped exactly at the threshold is deleted as well.
timestamp_before_or_at(timestamp, threshold) == timestamp <= threshold

\* AuditLog.timestamp < threshold.
timestamp_before(timestamp, threshold) == timestamp < threshold

cleanup_old_logs(d, days) ==
    LET threshold == utcnow - days
        Kept(row) == ~timestamp_before(row.timestamp, threshold)
        deleted == Len(d.audit_logs) - Len(SelectSeq(d.audit_logs, Kept))
    IN  Outcome([d EXCEPT !.audit_logs = SelectSeq(@, Kept)], deleted)

(***************************************************************************)
(* User and AuthService.                                                   *)
(***************************************************************************)
User(email, password_hash, role) ==
    [email |-> email,
     password_hash |-> password_hash,
     role |-> role,
     is_active |-> TRUE,
     last_login_at |-> NULL,
     deleted_at |-> NULL,
     deleted_by_id |-> NULL]

generate_password_hash(password) == <<"hash", password>>

\* Variant: any password is taken for the right one.
check_password_any(row, password) == TRUE

check_password(row, password) ==
    row.password_hash = generate_password_hash(password)

\* Variant: the letters are left as typed.
lower_missing(s) == s

lower(s) == [i \in DOMAIN s |-> IF s[i] = "U" THEN "u" ELSE s[i]]

\* User.get_by_email: every row is searched, deleted ones too.
get_by_email(d, email) ==
    {id \in DOMAIN d.users : d.users[id].email = strip(lower(email))}

AuthService_authenticate(d, email, password) ==
    IF email = <<>> \/ password = ""
    THEN Outcome(d, <<FALSE, NULL, "Email y contrasena son requeridos.">>)
    ELSE IF get_by_email(d, email) = {}
    THEN Outcome(d, <<FALSE, NULL, "Email o contrasena incorrecto.">>)
    ELSE LET id == CHOOSE u \in get_by_email(d, email) : TRUE
             user == d.users[id]
         IN  IF ~user.is_active
             THEN Outcome(d, <<FALSE, NULL, "Esta cuenta esta desactivada.">>)
             ELSE IF is_deleted(user)
             THEN Outcome(d, <<FALSE, NULL, "Email o contrasena incorrecto.">>)
             ELSE IF ~check_password(user, password)
             THEN Outcome(AuditLog_log(d, LOGIN_FAILED, "users", id, NULL,
                                       NoValues, NoValues),
                          <<FALSE, NULL, "Email o contrasena incorrecto.">>)
             ELSE Outcome(AuditLog_log(
                              [d EXCEPT !.users[id].last_login_at = utcnow],
                              LOGIN, "users", id, id, NoValues, NoValues),
                          <<TRUE, id, "Ingreso correctamente.">>)

\* allowed_emails is current_app.config["ALLOWED_EMAILS"] at the call.
AuthService_register(d, allowed_emails, email, password, role) ==
    IF email = <<>> \/ password = ""
    THEN Outcome(d, <<FALSE, NULL, "Email y contrasena son requeridos.">>)
    ELSE LET e == strip(lower(email)) IN
         IF allowed_emails # {} /\ e \notin allowed_emails
         THEN Outcome(d, <<FALSE, NULL, "Este email no esta autorizado para registrarse.">>)
         ELSE IF get_by_email(d, e) # {}
         THEN Outcome(d, <<FALSE, NULL, "Este email ya esta registrado.">>)
         ELSE LET id == next_id(d.users)
                  added == [d EXCEPT !.users =
                               (id :> User(e, generate_password_hash(password),
                                           role)) @@ @]
              IN  Outcome(AuditLog_log_create(added, "users", id,
                                              [email |-> e, role |-> role], NULL),
                          <<TRUE, id, "Cuenta creada con exito. Ahora podes iniciar sesion.">>)

AuthService_reset_password(d, email, new_password, security_answer) ==
    IF ~\E i \in DOMAIN security_answer : security_answer[i] = "-08-17"
    THEN Outcome(d, <<FALSE, "La respuesta a la pregunta de seguridad es incorrecta.">>)
    ELSE IF get_by_email(d, email) = {}
    THEN Outcome(d, <<FALSE, "No existe una cuenta registrada con ese email.">>)
    ELSE LET id == CHOOSE u \in get_by_email(d, email) : TRUE
             changed == [d EXCEPT !.users[id].password_hash =
                            generate_password_hash(new_password)]
         IN  Outcome(AuditLog_log(changed, PASSWORD_RESET, "users", id, id,
                                  [password_hash |-> "REDACTED"],
                                  [password_hash |-> "REDACTED"]),
                     <<TRUE, "Contrasena actualizada correctamente.">>)

AuthService_change_password(d, user, current_password, new_password) ==
    IF ~check_password(d.users[user], current_password)
    THEN Outcome(d, <<FALSE, "La contrasena actual es incorrecta.">>)
    ELSE LET changed == [d EXCEPT !.users[user].password_hash =
                            generate_password_hash(new_password)]
         IN  Outcome(AuditLog_log(changed, UPDATE, "users", user, user,
                                  [password_hash |-> "REDACTED"],
                                  [password_hash |-> "REDACTED"]),
                     <<TRUE, "Contrasena actualizada correctamente.">>)

\* user is a logged-in user (is_authenticated), or NULL.
AuthService_logout(d, user) ==
    IF user # NULL
    THEN Outcome(AuditLog_log(d, LOGOUT, "users", user, user, NoValues, NoValues),
                 <<>>)
    ELSE Outcome(d, <<>>)

(***************************************************************************)
(* PatientService.                                                         *)
(***************************************************************************)
PatientService_get_by_id(d, person_id) ==
    {id \in query_active(d.persons) : id = person_id}

\* The try block of create: the insert, its commit and the audit row.
PatientService_create_try(d, n, user_id) ==
    LET id == next_id(d.persons)
        added == [d EXCEPT !.persons = (id :> Person(n)) @@ @]
    IN  IF IntegrityError(added.persons)
        THEN Outcome(d, <<FALSE, NULL, "Error al crear el paciente. Intente nuevamente.">>)
        ELSE IF AuditLog_log_raises(added)
        THEN Outcome(rollback(d, added), <<FALSE, NULL, "Error al crear el paciente. Intente nuevamente.">>)
        ELSE Outcome(AuditLog_log_create(added, "persons", id,
                                         [name |-> n], user_id),
                     <<TRUE, id, "Paciente agregado correctamente.">>)

\* The checks of create before its try block let the name through.
PatientService_create_passes(d, name) ==
    /\ ~(name = <<>> \/ strip(name) = <<>>)
    /\ get_by_name(d, strip(name)) = {}

PatientService_create(d, name, user_id) ==
    IF name = <<>> \/ strip(name) = <<>>
    THEN Outcome(d, <<FALSE, NULL, "El nombre es requerido.">>)
    ELSE LET n == strip(name) IN
         IF get_by_name(d, n) # {}
         THEN Outcome(d, <<FALSE, NULL, "Ya existe un paciente con ese nombre.">>)
         ELSE PatientService_create_try(d, n, user_id)

\* Variant: the person being updated is not excluded from the search.
id_differs_ignored(id, person_id) == TRUE

\* Person.id != person_id
id_differs(id, person_id) == id # person_id

PatientService_update(d, person_id, name, user_id) ==
    IF PatientService_get_by_id(d, person_id) = {}
    THEN Outcome(d, <<FALSE, NULL, "Paciente no encontrado.">>)
    ELSE IF name = <<>> \/ strip(name) = <<>>
    THEN Outcome(d, <<FALSE, NULL, "El nombre es requerido.">>)
    ELSE LET n == strip(name) IN
         IF \E id \in query_active(d.persons) :
                d.persons[id].name = n /\ id_differs(id, person_id)
         THEN Outcome(d, <<FALSE, NULL, "Ya existe otro paciente con ese nombre.">>)
         ELSE LET old_values == [name |-> d.persons[person_id].name]
                  updated == [d EXCEPT !.persons[person_id].name = n]
              IN  IF IntegrityError(updated.persons)
                  THEN Outcome(d, <<FALSE, NULL, "Error al actualizar el paciente. Intente nuevamente.">>)
                  ELSE IF AuditLog_log_raises(updated)
                  THEN Outcome(rollback(d, updated), <<FALSE, NULL, "Error al actualizar el paciente. Intente nuevamente.">>)
                  ELSE Outcome(AuditLog_log_update(updated, "persons", person_id,
                                                   old_values, [name |-> n],
                                                   user_id),
                               <<TRUE, person_id, "Paciente actualizado correctamente.">>)

PatientService_delete(d, person_id, user_id, soft) ==
    IF PatientService_get_by_id(d, person_id) = {}
    THEN Outcome(d, <<FALSE, "Paciente no encontrado.">>)
    ELSE LET old_values == [name |-> d.persons[person_id].name]
             owned == person_therapy_sessions(d, person_id)
             marked ==
                 [d EXCEPT
                    !.persons[person_id] = soft_delete(@, user_id),
                    !.therapy_sessions =
                        [sid \in DOMAIN @ |->
                            IF sid \in owned
                            THEN soft_delete(@[sid], user_id)
                            ELSE @[sid]]]
             removed ==
                 [d EXCEPT
                    !.persons = [id \in DOMAIN @ \ {person_id} |-> @[id]],
                    !.therapy_sessions =
                        [sid \in DOMAIN @ \ owned |-> @[sid]]]
             committed == IF soft THEN marked ELSE removed
         IN  IF AuditLog_log_raises(committed)
             THEN Outcome(rollback(d, committed), <<FALSE, "Error al eliminar el paciente. Intente nuevamente.">>)
             ELSE Outcome(AuditLog_log(committed,
                                       IF soft THEN SOFT_DELETE ELSE DELETE,
                                       "persons", person_id, user_id,
                                       old_values, NoValues),
                          <<TRUE, "Paciente eliminado correctamente.">>)

PatientService_restore(d, person_id, user_id) ==
    IF person_id \notin DOMAIN d.persons
    THEN Outcome(d, <<FALSE, "Paciente no encontrado.">>)
    ELSE IF ~is_deleted(d.persons[person_id])
    THEN Outcome(d, <<FALSE, "Este paciente no esta eliminado.">>)
    ELSE LET owned == person_therapy_sessions(d, person_id)
             restored ==
                 [d EXCEPT
                    !.persons[person_id] = restore(@),
                    !.therapy_sessions =
                        [sid \in DOMAIN @ |->
                            IF sid \in owned THEN restore(@[sid]) ELSE @[sid]]]
         IN  IF AuditLog_log_raises(restored)
             THEN Outcome(rollback(d, restored), <<FALSE, "Error al restaurar el paciente. Intente nuevamente.">>)
             ELSE Outcome(AuditLog_log(restored, RESTORE, "persons", person_id,
                                       user_id, NoValues, NoValues),
                          <<TRUE, "Paciente restaurado correctamente.">>)

(***************************************************************************)
(* TherapySession.                                                         *)
(***************************************************************************)
TherapySession(person_id, session_date, session_price, pending, notes) ==
    [person_id |-> person_id,
     session_date |-> session_date,
     session_price |-> session_price,
     pending |-> pending,
     notes |-> notes,
     deleted_at |-> NULL,
     deleted_by_id |-> NULL]

\* Variant: the session is marked paid instead of flipped.
toggle_pending_paid(row) == [row EXCEPT !.pending = FALSE]

toggle_pending(row) == [row EXCEPT !.pending = ~@]

to_dict(id, row) ==
    [id |-> id,
     person_id |-> row.person_id,
     session_date |-> row.session_date,
     session_price |-> row.session_price,
     pending |-> row.pending,
     notes |-> row.notes]

(***************************************************************************)
(* SessionService.                                                         *)
(***************************************************************************)
\* Variant: the lookup reads soft-deleted sessions too.
SessionService_get_by_id_any(d, session_id) ==
    {id \in DOMAIN d.therapy_sessions : id = session_id}

SessionService_get_by_id(d, session_id) ==
    {id \in query_active(d.therapy_sessions) : id = session_id}

\* Variant: only negative prices are refused.
price_rejected_negative(session_price) == session_price < 0

price_rejected(session_price) == session_price <= 0

max_future_date == Today + MaxAdvanceDays

\* Variant: the last allowed day is refused as well.
date_rejected_early(session_date) == session_date >= max_future_date

date_rejected(session_date) == session_date > max_future_date

\* The try block of create: the insert, its commit and the audit row.
SessionService_create_try(d, person_id, session_date, session_price, user_id, pending, notes) ==
    LET id == next_id(d.therapy_sessions)
        added ==
            [d EXCEPT !.therapy_sessions =
                (id :> TherapySession(person_id, session_date,
                                      session_price, pending, notes)) @@ @]
    IN  IF AuditLog_log_raises(added)
        THEN Outcome(rollback(d, added), <<FALSE, NULL, "Error al crear la sesion. Intente nuevamente.">>)
        ELSE
        Outcome(AuditLog_log_create(added, "therapy_sessions", id,
                   [person_id |-> person_id,
                    person_name |-> d.persons[person_id].name,
                    session_date |-> session_date,
                    session_price |-> session_price,
                    pending |-> pending],
                   user_id),
                <<TRUE, id, "Sesion agregada correctamente.">>)

\* The checks of create before its try block let the call through.
SessionService_create_passes(d, person_id, session_date, session_price) ==
    /\ {id \in query_active(d.persons) : id = person_id} # {}
    /\ ~price_rejected(session_price)
    /\ ~date_rejected(session_date)

SessionService_create(d, person_id, session_date, session_price, user_id, pending, notes) ==
    IF {id \in query_active(d.persons) : id = person_id} = {}
    THEN Outcome(d, <<FALSE, NULL, "Paciente no encontrado.">>)
    ELSE IF price_rejected(session_price)
    THEN Outcome(d, <<FALSE, NULL, "El precio debe ser mayor a cero.">>)
    ELSE IF date_rejected(session_date)
    THEN Outcome(d, <<FALSE, NULL, "No se pueden agendar sesiones con mas de 7 dias de anticipacion.">>)
    ELSE SessionService_create_try(d, person_id, session_date, session_price,
                                   user_id, pending, notes)

\* Variant: pending is assigned even when the argument was left out.
set_pending_always(old, pending) == pending = "True"

\* if pending is not None: session.pending = pending
set_pending(old, pending) == IF pending # "None" THEN pending = "True" ELSE old

SessionService_update(d, session_id, session_date, session_price, user_id, pending, notes) ==
    IF SessionService_get_by_id(d, session_id) = {}
    THEN Outcome(d, <<FALSE, NULL, "Sesion no encontrada.">>)
    ELSE IF price_rejected(session_price)
    THEN Outcome(d, <<FALSE, NULL, "El precio debe ser mayor a cero.">>)
    ELSE LET old_values == to_dict(session_id, d.therapy_sessions[session_id])
             updated ==
                 [d EXCEPT !.therapy_sessions[session_id] =
                     [@ EXCEPT !.session_date = session_date,
                               !.session_price = session_price,
                               !.pending = set_pending(@, pending),
                               !.notes = notes]]
         IN  IF AuditLog_log_raises(updated)
             THEN Outcome(rollback(d, updated), <<FALSE, NULL, "Error al actualizar la sesion. Intente nuevamente.">>)
             ELSE
             Outcome(AuditLog_log_update(updated, "therapy_sessions", session_id,
                        old_values,
                        to_dict(session_id, updated.therapy_sessions[session_id]),
                        user_id),
                     <<TRUE, session_id, "Sesion actualizada correctamente.">>)

SessionService_delete(d, session_id, user_id, soft) ==
    IF SessionService_get_by_id(d, session_id) = {}
    THEN Outcome(d, <<FALSE, "Sesion no encontrada.">>)
    ELSE LET old_values == to_dict(session_id, d.therapy_sessions[session_id])
             marked ==
                 [d EXCEPT !.therapy_sessions[session_id] = soft_delete(@, user_id)]
             removed ==
                 [d EXCEPT !.therapy_sessions =
                     [sid \in DOMAIN @ \ {session_id} |-> @[sid]]]
             committed == IF soft THEN marked ELSE removed
         IN  IF AuditLog_log_raises(committed)
             THEN Outcome(rollback(d, committed), <<FALSE, "Error al eliminar la sesion. Intente nuevamente.">>)
             ELSE Outcome(AuditLog_log(committed,
                                       IF soft THEN SOFT_DELETE ELSE DELETE,
                                       "therapy_sessions", session_id, user_id,
                                       old_values, NoValues),
                          <<TRUE, "Sesion eliminada correctamente.">>)

SessionService_toggle_payment_status(d, session_id, user_id) ==
    IF SessionService_get_by_id(d, session_id) = {}
    THEN Outcome(d, <<FALSE, "None", "Sesion no encontrada.">>)
    ELSE LET old_pending == d.therapy_sessions[session_id].pending
             toggled ==
                 [d EXCEPT !.therapy_sessions[session_id] = toggle_pending(@)]
             new_pending == toggled.therapy_sessions[session_id].pending
         IN  IF AuditLog_log_raises(toggled)
             THEN Outcome(rollback(d, toggled), <<FALSE, "None", "Error al actualizar el estado. Intente nuevamente.">>)
             ELSE
             Outcome(AuditLog_log_update(toggled, "therapy_sessions", session_id,
                        [pending |-> old_pending],
                        [pending |-> new_pending],
                        user_id),
                     <<TRUE, PyBool(new_pending),
                       IF new_pending THEN "Sesion marcada como pendiente." ELSE "Sesion marcada como pagada.">>)

\* Variant: the rows are not restricted to the active ones.
calculate_totals_query_all(d, person_id) ==
    IF person_id # NULL
    THEN {s \in DOMAIN d.therapy_sessions :
             d.therapy_sessions[s].person_id = person_id}
    ELSE DOMAIN d.therapy_sessions

\* TherapySession.query_active(), filtered by person_id when one is given.
calculate_totals_query(d, person_id) ==
    IF person_id # NULL
    THEN {s \in query_active(d.therapy_sessions) :
             d.therapy_sessions[s].person_id = person_id}
    ELSE query_active(d.therapy_sessions)

calculate_totals(d, person_id) ==
    LET sessions == calculate_totals_query(d, person_id)
        pending_total ==
            sum_session_price(d.therapy_sessions,
                              {s \in sessions : d.therapy_sessions[s].pending})
        paid_total ==
            sum_session_price(d.therapy_sessions,
                              {s \in sessions : ~d.therapy_sessions[s].pending})
    IN  [pending_total |-> pending_total,
         paid_total |-> paid_total,
         grand_total |-> pending_total + paid_total]

(***************************************************************************)
(* PatientService.get_dashboard_data.                                      *)
(***************************************************************************)
SPANISH_DAYS ==
    <<"Lunes", "Martes", "Miercoles", "Jueves", "Viernes", "Sabado", "Domingo">>

\* Day number 0 is taken to be a Monday.
format_date(date) == <<SPANISH_DAYS[(date % 7) + 1], date>>

\* A price in cents as "$" units, 2 decimals.
format_price(price) == <<"$", price \div 100, price % 100>>

Ord(c) == CASE c = " " -> 32 [] c = "a" -> 97 [] c = "b" -> 98 [] OTHER -> 127

RECURSIVE NameBefore(_, _)
NameBefore(a, b) ==
    IF b = <<>> THEN FALSE
    ELSE IF a = <<>> THEN TRUE
    ELSE IF Ord(Head(a)) # Ord(Head(b)) THEN Ord(Head(a)) < Ord(Head(b))
    ELSE NameBefore(Tail(a), Tail(b))

\* Person LEFT OUTER JOIN TherapySession ON person_id and the session not
\* deleted, WHERE the person is not deleted: one row per active session of
\* an active person, one row of NULLs for an active person without any.
JoinedRows(d) ==
    LET SessionsOf(p) ==
            {sid \in query_active(d.therapy_sessions) :
                d.therapy_sessions[sid].person_id = p}
    IN  UNION {
          IF SessionsOf(p) = {}
          THEN {[person_id |-> p, name |-> d.persons[p].name,
                 session_id |-> NULL, session_date |-> NULL,
                 session_price |-> NULL, pending |-> "NULL"]}
          ELSE {[person_id |-> p, name |-> d.persons[p].name,
                 session_id |-> sid,
                 session_date |-> d.therapy_sessions[sid].session_date,
                 session_price |-> d.therapy_sessions[sid].session_price,
                 pending |-> PyBool(d.therapy_sessions[sid].pending)]
                : sid \in SessionsOf(p)}
          : p \in query_active(d.persons)}

\* Variant: the pending / paid restriction is not applied.
FilteredRows_unfiltered(d, show_filter) == JoinedRows(d)

\* The WHERE clause on TherapySession.pending; a NULL compares to nothing.
FilteredRows(d, show_filter) ==
    IF show_filter = PENDING_FILTER
    THEN {r \in JoinedRows(d) : r.pending = "True"}
    ELSE IF show_filter = PAID_FILTER
    THEN {r \in JoinedRows(d) : r.pending = "False"}
    ELSE JoinedRows(d)

\* ORDER BY Person.name, TherapySession.session_date; rows that tie are
\* taken in id order.
RowBefore(r, x) ==
    IF r.name # x.name THEN NameBefore(r.name, x.name)
    ELSE IF r.session_date # x.session_date THEN r.session_date < x.session_date
    ELSE IF r.person_id # x.person_id THEN r.person_id < x.person_id
    ELSE r.session_id < x.session_id

RECURSIVE OrderedRows(_)
OrderedRows(S) ==
    IF S = {} THEN <<>>
    ELSE LET first == CHOOSE r \in S : \A x \in S \ {r} : RowBefore(r, x)
         IN  <<first>> \o OrderedRows(S \ {first})

\* The grouping loop over the rows.
RECURSIVE GroupRows(_, _, _)
GroupRows(rows, grouped_sessions, total) ==
    IF rows = <<>>
    THEN [grouped_sessions |-> grouped_sessions, total |-> total]
    ELSE LET r == Head(rows)
             grouped_session_key == <<r.person_id, r.name>>
         IN  IF r.session_date # NULL /\ r.session_price # NULL
             THEN LET session_data == <<r.session_id,
                                        format_date(r.session_date),
                                        format_price(r.session_price),
                                        r.pending>>
                      before == IF grouped_session_key \in DOMAIN grouped_sessions
                                THEN grouped_sessions[grouped_session_key]
                                ELSE <<>>
                  IN  GroupRows(Tail(rows),
                                (grouped_session_key :> Append(before, session_data))
                                    @@ grouped_sessions,
                                total + 1)
             ELSE IF r.person_id \notin {k[1] : k \in DOMAIN grouped_sessions}
             THEN GroupRows(Tail(rows),
                            (grouped_session_key :> <<>>) @@ grouped_sessions,
                            total)
             ELSE GroupRows(Tail(rows), grouped_sessions, total)

get_dashboard_data(d, show_filter) ==
    LET g == GroupRows(OrderedRows(FilteredRows(d, show_filter)), <<>>, 0)
    IN  [grouped_sessions |-> g.grouped_sessions,
         total |-> g.total,
         filter |-> show_filter]

(***************************************************************************)
(* The read-only queries of the services.                                  *)
(***************************************************************************)
\* Person.get_all_active(): the active persons, ORDER BY name.
RECURSIVE Person_get_all_active(_, _)
Person_get_all_active(d, ids) ==
    IF ids = {} THEN <<>>
    ELSE LET first == CHOOSE p \in ids : \A q \in ids \ {p} :
                          \/ NameBefore(d.persons[p].name, d.persons[q].name)
                          \/ d.persons[p].name = d.persons[q].name /\ p < q
         IN  <<first>> \o Person_get_all_active(d, ids \ {first})

PatientService_get_all_active(d) ==
    Person_get_all_active(d, query_active(d.persons))

PatientService_get_for_select(d) ==
    LET all_active == PatientService_get_all_active(d)
    IN  [i \in 1..Len(all_active) |->
            <<all_active[i], d.persons[all_active[i]].name>>]

\* Variant: the two deleted_at conditions are missing from the join.
SessionService_get_session_with_person_any(d, session_id, person_id) ==
    {[name |-> d.persons[p].name,
      date |-> d.therapy_sessions[s].session_date,
      price |-> d.therapy_sessions[s].session_price,
      pending |-> d.therapy_sessions[s].pending]
        : <<p, s>> \in
            {x \in (DOMAIN d.persons) \X (DOMAIN d.therapy_sessions) :
                /\ x[1] = d.therapy_sessions[x[2]].person_id
                /\ x[1] = person_id
                /\ x[2] = session_id}}

\* The joined row as a dictionary; no row is the empty set.
SessionService_get_session_with_person(d, session_id, person_id) ==
    {[name |-> d.persons[p].name,
      date |-> d.therapy_sessions[s].session_date,
      price |-> d.therapy_sessions[s].session_price,
      pending |-> d.therapy_sessions[s].pending]
        : <<p, s>> \in
            {x \in (DOMAIN d.persons) \X (DOMAIN d.therapy_sessions) :
                /\ x[1] = d.therapy_sessions[x[2]].person_id
                /\ x[1] = person_id
                /\ x[2] = session_id
                /\ d.persons[x[1]].deleted_at = NULL
                /\ d.therapy_sessions[x[2]].deleted_at = NULL}}

\* ORDER BY session_date DESC, created_at DESC; rows are created in id
\* order.
RECURSIVE recent_first(_, _)
recent_first(d, ids) ==
    IF ids = {} THEN <<>>
    ELSE LET first == CHOOSE s \in ids : \A t \in ids \ {s} :
                 \/ d.therapy_sessions[s].session_date
                        > d.therapy_sessions[t].session_date
                 \/ /\ d.therapy_sessions[s].session_date
                        = d.therapy_sessions[t].session_date
                    /\ s > t
         IN  <<first>> \o recent_first(d, ids \ {first})

SessionService_get_recent_sessions(d, limit) ==
    LET ordered == recent_first(d, query_active(d.therapy_sessions))
    IN  SubSeq(ordered, 1, IF Len(ordered) < limit THEN Len(ordered) ELSE limit)

(***************************************************************************)
(* The web and API routes.  A request carries the user id held by the      *)
(* browser's login session (NULL when there is none) and, for the form     *)
(* routes, its method; a posted form or JSON body carries its fields.  A   *)
(* response is its status, the page or redirect target, and the user id    *)
(* the login session holds afterwards.                                     *)
(***************************************************************************)
Response(status, location, user_id) ==
    [status |-> status, location |-> location, user_id |-> user_id]

\* load_user: User.query.get(int(user_id)).
load_user(d, user_id) == {id \in DOMAIN d.users : id = user_id}

\* current_user.is_authenticated: a loaded user answers with its is_active.
is_authenticated(d, user_id) ==
    \E id \in load_user(d, user_id) : d.users[id].is_active

\* User.can_delete_patients of the logged-in user.
can_delete_patients(d, user_id) ==
    \E id \in load_user(d, user_id) : d.users[id].role \in {ADMIN, THERAPIST}

\* Variant: the view runs whoever asks.
login_required_skipped(d, user_id, view) == view

\* @login_required: without an authenticated user the login manager
\* redirects to login_view and the view does not run.
login_required(d, user_id, view) ==
    IF ~is_authenticated(d, user_id)
    THEN Outcome(d, Response(302, "auth.login", user_id))
    ELSE view

\* The response of a form view: a redirect when the service call succeeded,
\* the form again when it did not.
flash(o, user_id, location, template) ==
    IF o.ret[1]
    THEN Outcome(o.db, Response(302, location, user_id))
    ELSE Outcome(o.db, Response(200, template, user_id))

\* The JSON response of an API view.
jsonify(o, user_id, status) ==
    Outcome(o.db, Response(IF o.ret[1] THEN status ELSE 400, "", user_id))

login(d, user_id, method, email, password) ==
    IF is_authenticated(d, user_id)
    THEN Outcome(d, Response(302, "main.index", user_id))
    ELSE IF method = "POST"
    THEN LET o == AuthService_authenticate(d, email, password) IN
         IF o.ret[1]
         THEN Outcome(o.db, Response(302, "main.index", o.ret[2]))
         ELSE Outcome(o.db, Response(200, "auth/login.html", user_id))
    ELSE Outcome(d, Response(200, "auth/login.html", user_id))

logout(d, user_id) ==
    login_required(d, user_id,
        Outcome(AuthService_logout(d, user_id).db,
                Response(302, "auth.login", NULL)))

main_index(d, user_id) ==
    login_required(d, user_id, Outcome(d, Response(302, "patients.index", user_id)))

patients_index(d, user_id) ==
    login_required(d, user_id,
        Outcome(d, Response(200, "patients/list.html", user_id)))

add_person(d, user_id, method, name) ==
    login_required(d, user_id,
        IF method = "POST"
        THEN flash(PatientService_create(d, name, user_id), user_id,
                   "sessions.add_session", "patients/form_person.html")
        ELSE Outcome(d, Response(200, "patients/form_person.html", user_id)))

edit_person(d, user_id, method, person_id, name) ==
    login_required(d, user_id,
        IF PatientService_get_by_id(d, person_id) = {}
        THEN Outcome(d, Response(302, "patients.index", user_id))
        ELSE IF method = "POST"
        THEN flash(PatientService_update(d, person_id, name, user_id), user_id,
                   "patients.index", "patients/form_person.html")
        ELSE Outcome(d, Response(200, "patients/form_person.html", user_id)))

remove_person(d, user_id, method, person_id) ==
    login_required(d, user_id,
        IF ~ALLOW_DELETE
        THEN Outcome(d, Response(302, "patients.index", user_id))
        ELSE IF PatientService_get_by_id(d, person_id) = {}
        THEN Outcome(d, Response(302, "patients.index", user_id))
        ELSE IF method = "POST"
        THEN Outcome(PatientService_delete(d, person_id, user_id, TRUE).db,
                     Response(302, "patients.index", user_id))
        ELSE Outcome(d, Response(200, "patients/delete_person.html", user_id)))

add_session(d, user_id, method, person_id, session_date, session_price, pending, notes) ==
    login_required(d, user_id,
        IF PatientService_get_for_select(d) = <<>>
        THEN Outcome(d, Response(302, "patients.add_person", user_id))
        ELSE IF method = "POST"
        THEN flash(SessionService_create(d, person_id, session_date,
                                         session_price, user_id, pending, notes),
                   user_id, "patients.index", "sessions/form_session.html")
        ELSE Outcome(d, Response(200, "sessions/form_session.html", user_id)))

update_session(d, user_id, method, person_id, session_id, session_date, session_price, pending, notes) ==
    login_required(d, user_id,
        IF SessionService_get_session_with_person(d, session_id, person_id) = {}
        THEN Outcome(d, Response(302, "patients.index", user_id))
        ELSE IF method = "POST"
        THEN flash(SessionService_update(d, session_id, session_date,
                                         session_price, user_id, pending, notes),
                   user_id, "patients.index", "sessions/form_edit.html")
        ELSE Outcome(d, Response(200, "sessions/form_edit.html", user_id)))

remove_session(d, user_id, session_id) ==
    login_required(d, user_id,
        Outcome(SessionService_delete(d, session_id, user_id, TRUE).db,
                Response(302, "patients.index", user_id)))

sessions_toggle_pending(d, user_id, session_id) ==
    login_required(d, user_id,
        Outcome(SessionService_toggle_payment_status(d, session_id, user_id).db,
                Response(302, "patients.index", user_id)))

list_patients(d, user_id) ==
    login_required(d, user_id, Outcome(d, Response(200, "", user_id)))

get_patient(d, user_id, patient_id) ==
    login_required(d, user_id,
        Outcome(d, Response(IF PatientService_get_by_id(d, patient_id) = {}
                            THEN 404 ELSE 200, "", user_id)))

create_patient(d, user_id, name) ==
    login_required(d, user_id,
        jsonify(PatientService_create(d, name, user_id), user_id, 201))

delete_patient(d, user_id, patient_id) ==
    login_required(d, user_id,
        jsonify(PatientService_delete(d, patient_id, user_id, TRUE), user_id, 200))

list_sessions(d, user_id, patient_id) ==
    login_required(d, user_id, Outcome(d, Response(200, "", user_id)))

create_session(d, user_id, person_id, session_date, session_price, pending, notes) ==
    login_required(d, user_id,
        jsonify(SessionService_create(d, person_id, session_date, session_price,
                                      user_id, pending, notes), user_id, 201))

toggle_session(d, user_id, session_id) ==
    login_required(d, user_id,
        jsonify(SessionService_toggle_payment_status(d, session_id, user_id),
                user_id, 200))

delete_session(d, user_id, session_id) ==
    login_required(d, user_id,
        jsonify(SessionService_delete(d, session_id, user_id, TRUE), user_id, 200))

get_stats(d, user_id) ==
    login_required(d, user_id, Outcome(d, Response(200, "", user_id)))

(***************************************************************************)
(* The user commands of the command line.                                  *)
(***************************************************************************)
create_user(d, email, password, role) ==
    IF get_by_email(d, email) # {}
    THEN Outcome(d, <<>>)
    ELSE Outcome([d EXCEPT !.users =
                     (next_id(d.users) :>
                         User(strip(lower(email)),
                              generate_password_hash(password), role)) @@ @],
                 <<>>)

set_role(d, email, role) ==
    IF get_by_email(d, email) = {}
    THEN Outcome(d, <<>>)
    ELSE Outcome([d EXCEPT !.users =
                     [id \in DOMAIN @ |->
                         IF id \in get_by_email(d, email)
                         THEN [@[id] EXCEPT !.role = role] ELSE @[id]]],
                 <<>>)

deactivate_user(d, email) ==
    IF get_by_email(d, email) = {}
    THEN Outcome(d, <<>>)
    ELSE Outcome([d EXCEPT !.users =
                     [id \in DOMAIN @ |->
                         IF id \in get_by_email(d, email)
                         THEN [@[id] EXCEPT !.is_active = FALSE] ELSE @[id]]],
                 <<>>)

activate_user(d, email) ==
    IF get_by_email(d, email) = {}
    THEN Outcome(d, <<>>)
    ELSE Outcome([d EXCEPT !.users =
                     [id \in DOMAIN @ |->
                         IF id \in get_by_email(d, email)
                         THEN [@[id] EXCEPT !.is_active = TRUE] ELSE @[id]]],
                 <<>>)

(***************************************************************************)
(* The state machine: one action per service call.  A call is made with    *)
(* arguments drawn from the given sets; the tables it leaves behind become *)
(* the stored tables.                                                      *)
(***************************************************************************)
\* A request slot with no call in progress.  A call in progress has its
\* position and the arguments and rows it holds: pending is the value of the
\* session it loaded, seq the place of its commit among the commits of the
\* calls not yet returned, log_id the audit row it wrote.
Idle ==
    [pc |-> "idle", name |-> <<>>, user_id |-> NULL, person_id |-> NULL,
     session_id |-> NULL, pending |-> FALSE, seq |-> 0, log_id |-> NULL]

Init ==
    /\ persons = <<>>
    /\ therapy_sessions = <<>>
    /\ audit_logs = <<>>
    /\ users = <<>>
    /\ audit_write_fails = FALSE
    /\ in_flight = [r \in RequestIds |-> Idle]
    /\ login_session = NULL

\* Time passes: every stored timestamp is days further in the past.
Elapse(d, days) ==
    [d EXCEPT !.audit_logs =
        [i \in DOMAIN @ |-> [@[i] EXCEPT !.timestamp = @ - days]]]

Store(d) ==
    /\ DOMAIN d.persons \subseteq PersonIds
    /\ DOMAIN d.therapy_sessions \subseteq SessionIds
    /\ Len(d.audit_logs) <= MaxAudit
    /\ DOMAIN d.users \subseteq UserRowIds
    /\ \A i \in DOMAIN d.audit_logs : d.audit_logs[i].timestamp >= utcnow - MaxAge
    /\ persons' = d.persons
    /\ therapy_sessions' = d.therapy_sessions
    /\ audit_logs' = d.audit_logs
    /\ users' = d.users
    /\ audit_write_fails' = d.audit_write_fails

\* The call, and the time that passes before the next one.
Commit(o) ==
    /\ \E days \in ElapsedDays : Store(Elapse(o.db, days))
    /\ UNCHANGED <<in_flight, login_session>>

\* The call, then a day later the retention sweep with days = 0.
Swept(d) == cleanup_old_logs(Elapse(d, 1), 0).db

CommitSwept(o) ==
    /\ Store(Swept(o.db))
    /\ UNCHANGED <<in_flight, login_session>>

Finish(o, swept) == IF swept THEN CommitSwept(o) ELSE Commit(o)

CallCreatePatient(names, callers, swept) ==
    \E name \in names, user_id \in callers :
        Finish(PatientService_create(db, name, user_id), swept)

CallUpdatePatient(names, callers, swept) ==
    \E person_id \in PersonIds, name \in names, user_id \in callers :
        Finish(PatientService_update(db, person_id, name, user_id), swept)

CallDeletePatient(callers, softs, swept) ==
    \E person_id \in PersonIds, user_id \in callers, soft \in softs :
        Finish(PatientService_delete(db, person_id, user_id, soft), swept)

CallRestorePatient(callers, swept) ==
    \E person_id \in PersonIds, user_id \in callers :
        Finish(PatientService_restore(db, person_id, user_id), swept)

CallCreateSession(dates, prices, callers, texts, swept) ==
    \E person_id \in PersonIds, session_date \in dates, session_price \in prices,
       user_id \in callers, pending \in BOOLEAN, notes \in texts :
        Finish(SessionService_create(db, person_id, session_date,
                                     session_price, user_id, pending, notes),
               swept)

CallUpdateSession(dates, prices, callers, texts, swept) ==
    \E session_id \in SessionIds, session_date \in dates, session_price \in prices,
       user_id \in callers, pending \in PendingArgs, notes \in texts :
        Finish(SessionService_update(db, session_id, session_date,
                                     session_price, user_id, pending, notes),
               swept)

CallDeleteSession(callers, softs, swept) ==
    \E session_id \in SessionIds, user_id \in callers, soft \in softs :
        Finish(SessionService_delete(db, session_id, user_id, soft), swept)

CallTogglePayment(callers, swept) ==
    \E session_id \in SessionIds, user_id \in callers :
        Finish(SessionService_toggle_payment_status(db, session_id, user_id), swept)

CallRegister(configs, emails, passwords, swept) ==
    \E allowed_emails \in configs, email \in emails, password \in passwords :
        Finish(AuthService_register(db, allowed_emails, email, password,
                                    THERAPIST), swept)

CallAuthenticate(emails, passwords) ==
    \E email \in emails, password \in passwords :
        Commit(AuthService_authenticate(db, email, password))

CallResetPassword(emails, passwords) ==
    \E email \in emails, new_password \in passwords,
       security_answer \in SecurityAnswers :
        Commit(AuthService_reset_password(db, email, new_password,
                                          security_answer))

CallChangePassword(passwords) ==
    \E user \in DOMAIN users, current_password \in passwords,
       new_password \in passwords :
        Commit(AuthService_change_password(db, user, current_password,
                                           new_password))

CallLogout ==
    \E user \in {NULL} \cup DOMAIN users :
        Commit(AuthService_logout(db, user))

\* The database begins or stops to refuse the writes of audit rows.
\* The first half of PatientService.create in one of the concurrent requests:
\* the name passes the checks, the try block has not run yet.
CallCreatePatient_check(names, callers) ==
    \E r \in RequestIds, name \in names, user_id \in callers :
        /\ in_flight[r] = Idle
        /\ PatientService_create_passes(db, name)
        /\ in_flight' = [in_flight EXCEPT ![r] =
               [Idle EXCEPT !.pc = "checked", !.name = strip(name),
                            !.user_id = user_id]]
        /\ UNCHANGED <<persons, therapy_sessions, audit_logs, users,
                       audit_write_fails, login_session>>

\* The second half: the try block runs against the tables as they are now.
CallCreatePatient_commit ==
    \E r \in RequestIds :
        /\ in_flight[r].pc = "checked"
        /\ Store(Swept(PatientService_create_try(db, in_flight[r].name,
                                                 in_flight[r].user_id).db))
        /\ in_flight' = [in_flight EXCEPT ![r] = Idle]
        /\ UNCHANGED login_session

\* A request served: the tables the view leaves behind are stored and the
\* browser keeps the login session of the response.
Respond(o) ==
    /\ Store(Swept(o.db))
    /\ login_session' = o.ret.user_id
    /\ UNCHANGED in_flight

\* The first half of SessionService.create in one of the concurrent requests:
\* the person was found active and price and date were accepted.
CallCreateSession_check(dates, prices, callers) ==
    \E r \in RequestIds, person_id \in PersonIds, session_date \in dates,
       session_price \in prices, user_id \in callers, pending \in BOOLEAN :
        /\ in_flight[r] = Idle
        /\ SessionService_create_passes(db, person_id, session_date, session_price)
        /\ in_flight' = [in_flight EXCEPT ![r] =
               [Idle EXCEPT !.pc = "person_found", !.person_id = person_id,
                            !.user_id = user_id, !.pending = pending]]
        /\ UNCHANGED <<persons, therapy_sessions, audit_logs, users,
                       audit_write_fails, login_session>>

\* The second half: the try block runs against the tables as they are now.
CallCreateSession_commit(dates, prices) ==
    \E r \in RequestIds, session_date \in dates, session_price \in prices :
        /\ in_flight[r].pc = "person_found"
        /\ Store(Swept(SessionService_create_try(
                           db, in_flight[r].person_id, session_date,
                           session_price, in_flight[r].user_id,
                           in_flight[r].pending, "None").db))
        /\ in_flight' = [in_flight EXCEPT ![r] = Idle]
        /\ UNCHANGED login_session

\* toggle_payment_status up to `old_pending = session.pending`: get_by_id
\* loads the active session into the request's ORM session.
CallTogglePayment_load(callers) ==
    \E r \in RequestIds, session_id \in SessionIds, user_id \in callers :
        /\ in_flight[r] = Idle
        /\ SessionService_get_by_id(db, session_id) # {}
        /\ in_flight' = [in_flight EXCEPT ![r] =
               [Idle EXCEPT !.pc = "loaded", !.session_id = session_id,
                            !.user_id = user_id,
                            !.pending = therapy_sessions[session_id].pending]]
        /\ UNCHANGED <<persons, therapy_sessions, audit_logs, users,
                       audit_write_fails, login_session>>

\* session.toggle_pending(user_id) on the loaded object and db.session.commit():
\* the UPDATE writes the negation of the loaded value.
CallTogglePayment_commit ==
    \E r \in RequestIds :
        /\ in_flight[r].pc = "loaded"
        /\ in_flight[r].session_id \in DOMAIN therapy_sessions
        /\ Store([db EXCEPT !.therapy_sessions[in_flight[r].session_id] =
                     toggle_pending([@ EXCEPT !.pending = in_flight[r].pending])])
        /\ in_flight' = [in_flight EXCEPT ![r] =
               [@ EXCEPT !.pc = "flipped",
                         !.seq = 1 + Cardinality({q \in RequestIds :
                                                    in_flight[q].seq > 0})]]
        /\ UNCHANGED login_session

\* AuditLog.log_update with the old and new values the call holds, then the
\* return of (True, new_pending, message).
CallTogglePayment_audit ==
    \E r \in RequestIds :
        /\ in_flight[r].pc = "flipped"
        /\ Store(AuditLog_log_update(db, "therapy_sessions",
                                     in_flight[r].session_id,
                                     [pending |-> in_flight[r].pending],
                                     [pending |-> ~in_flight[r].pending],
                                     in_flight[r].user_id))
        /\ in_flight' = [in_flight EXCEPT ![r] =
               [@ EXCEPT !.pc = "returned", !.log_id = Len(audit_logs) + 1]]
        /\ UNCHANGED login_session

\* The responses of the returned calls are delivered; a day later the
\* retention sweep runs.
CallTogglePayment_respond ==
    /\ \A r \in RequestIds : in_flight[r].pc \in {"idle", "returned"}
    /\ \E r \in RequestIds : in_flight[r].pc = "returned"
    /\ Store(Swept(db))
    /\ in_flight' = [r \in RequestIds |-> Idle]
    /\ UNCHANGED login_session

AuditWriteFault ==
    /\ audit_write_fails' = ~audit_write_fails
    /\ UNCHANGED <<persons, therapy_sessions, audit_logs, users, in_flight,
                   login_session>>

CallCleanupOldLogs ==
    \E days \in DaysArgs :
        Commit(cleanup_old_logs(db, days))

(***************************************************************************)
(* Spec: the patient and session lifecycle.  All names and both kinds of   *)
(* caller, one valid date and price; the retention sweep follows every     *)
(* call, so the audit log does not grow.                                   *)
(***************************************************************************)
OneDate == {Today}
NoNotes == {"None"}
OnePrice == {1}


Next ==
    \/ /\ CallCreatePatient(Names, UserIds, TRUE)
    \/ /\ CallUpdatePatient(Names, UserIds, TRUE)
    \/ /\ CallDeletePatient(UserIds, BOOLEAN, TRUE)
    \/ /\ CallRestorePatient(UserIds, TRUE)
    \/ /\ CallCreateSession(OneDate, OnePrice, UserIds, NoNotes, TRUE)
    \/ /\ CallUpdateSession(OneDate, OnePrice, UserIds, NoNotes, TRUE)
    \/ /\ CallDeleteSession(UserIds, BOOLEAN, TRUE)
    \/ /\ CallTogglePayment(UserIds, TRUE)

Spec == Init /\ [][Next]_vars

(***************************************************************************)
(* SpecAudit: every call with the audit log kept; one name, one caller,    *)
(* one date and price, soft deletes.                                       *)
(***************************************************************************)
OneName == {<<"a">>}
OneUser == {1}
SoftOnly == {TRUE}


NextAudit ==
    \/ /\ CallCreatePatient(OneName, OneUser, FALSE)
    \/ /\ CallUpdatePatient(OneName, OneUser, FALSE)
    \/ /\ CallDeletePatient(OneUser, SoftOnly, FALSE)
    \/ /\ CallRestorePatient(OneUser, FALSE)
    \/ /\ CallCreateSession(OneDate, OnePrice, OneUser, NoNotes, FALSE)
    \/ /\ CallUpdateSession(OneDate, OnePrice, OneUser, NoNotes, FALSE)
    \/ /\ CallDeleteSession(OneUser, SoftOnly, FALSE)
    \/ /\ CallTogglePayment(OneUser, FALSE)
    \/ /\ CallCleanupOldLogs

SpecAudit == Init /\ [][NextAudit]_vars

(***************************************************************************)
(* SpecBilling: the sessions of one patient with every date and price;     *)
(* the retention sweep follows every call.                                 *)
(***************************************************************************)

NextBilling ==
    \/ /\ CallCreatePatient(OneName, OneUser, TRUE)
    \/ /\ CallCreateSession(Dates, Prices, OneUser, Notes, TRUE)
    \/ /\ CallUpdateSession(Dates, Prices, OneUser, Notes, TRUE)
    \/ /\ CallDeleteSession(OneUser, SoftOnly, TRUE)
    \/ /\ CallTogglePayment(OneUser, TRUE)

SpecBilling == Init /\ [][NextBilling]_vars

(***************************************************************************)
(* SpecTotals: two patients and their sessions at two prices, with soft    *)
(* deletes, restores and payment toggles; the retention sweep follows      *)
(* every call.                                                             *)
(***************************************************************************)
TwoNames == {<<"a">>, <<"b">>}
TwoPrices == {1, 2}


NextTotals ==
    \/ /\ CallCreatePatient(TwoNames, OneUser, TRUE)
    \/ /\ CallDeletePatient(OneUser, SoftOnly, TRUE)
    \/ /\ CallRestorePatient(OneUser, TRUE)
    \/ /\ CallCreateSession(OneDate, TwoPrices, OneUser, NoNotes, TRUE)
    \/ /\ CallDeleteSession(OneUser, SoftOnly, TRUE)
    \/ /\ CallTogglePayment(OneUser, TRUE)

SpecTotals == Init /\ [][NextTotals]_vars

(***************************************************************************)
(* SpecAuth: the authentication calls next to patient and session calls    *)
(* with soft and hard deletes, the audit log kept.                         *)
(***************************************************************************)
AuthEmails == {<<"u">>, <<"U", " ">>}
AuthPasswords == {"p", "q"}


NextAuth ==
    \/ /\ CallRegister({ALLOWED_EMAILS}, AuthEmails, AuthPasswords, FALSE)
    \/ /\ CallAuthenticate(AuthEmails, AuthPasswords)
    \/ /\ CallResetPassword(AuthEmails, AuthPasswords)
    \/ /\ CallChangePassword(AuthPasswords)
    \/ /\ CallLogout
    \/ /\ \E email \in AuthEmails : Commit(deactivate_user(db, email))
    \/ /\ \E email \in AuthEmails : Commit(activate_user(db, email))
    \/ /\ CallCreatePatient(OneName, OneUser, FALSE)
    \/ /\ CallDeletePatient(OneUser, BOOLEAN, FALSE)
    \/ /\ CallCreateSession(OneDate, OnePrice, OneUser, NoNotes, FALSE)
    \/ /\ CallDeleteSession(OneUser, BOOLEAN, FALSE)
    \/ /\ CallCleanupOldLogs

SpecAuth == Init /\ [][NextAuth]_vars

(***************************************************************************)
(* SpecFault: the patient and session calls when the write of the audit    *)
(* row may fail; one name, one caller, one date and price, the audit log   *)
(* kept.                                                                   *)
(***************************************************************************)
NextFault ==
    \/ /\ CallCreatePatient(OneName, OneUser, FALSE)
    \/ /\ CallUpdatePatient(OneName, OneUser, FALSE)
    \/ /\ CallDeletePatient(OneUser, SoftOnly, FALSE)
    \/ /\ CallRestorePatient(OneUser, FALSE)
    \/ /\ CallCreateSession(OneDate, OnePrice, OneUser, NoNotes, FALSE)
    \/ /\ CallUpdateSession(OneDate, OnePrice, OneUser, NoNotes, FALSE)
    \/ /\ CallDeleteSession(OneUser, SoftOnly, FALSE)
    \/ /\ CallTogglePayment(OneUser, FALSE)
    \/ /\ CallCleanupOldLogs
    \/ /\ AuditWriteFault

SpecFault == Init /\ [][NextFault]_vars

(***************************************************************************)
(* SpecRace: concurrent PatientService.create calls, each split into its   *)
(* pre-check and its try block, with deletes in between; the audit log     *)
(* swept.                                                                  *)
(***************************************************************************)
NextRace ==
    \/ /\ CallCreatePatient_check(Names, UserIds)
    \/ /\ CallCreatePatient_commit
    \/ /\ CallDeletePatient(OneUser, BOOLEAN, TRUE)

SpecRace == Init /\ [][NextRace]_vars

(***************************************************************************)
(* SpecWeb: one browser sending requests to the web and API routes, with   *)
(* users created and given roles from the command line; one name, date and *)
(* price, the audit log swept.                                             *)
(***************************************************************************)
Methods == {"GET", "POST"}
Roles == {ADMIN, THERAPIST, VIEWER}

NextWeb ==
    \/ /\ \E email \in {<<"u">>}, password \in {"p"}, role \in Roles :
             CommitSwept(create_user(db, email, password, role))
    \/ /\ \E email \in {<<"u">>}, role \in Roles :
             CommitSwept(set_role(db, email, role))
    \/ /\ CommitSwept(deactivate_user(db, <<"u">>))
    \/ /\ CommitSwept(activate_user(db, <<"u">>))
    \/ /\ \E method \in Methods, email \in {<<"u">>}, password \in AuthPasswords :
             Respond(login(db, login_session, method, email, password))
    \/ /\ Respond(logout(db, login_session))
    \/ /\ Respond(main_index(db, login_session))
    \/ /\ Respond(patients_index(db, login_session))
    \/ /\ \E method \in Methods, name \in TwoNames :
             Respond(add_person(db, login_session, method, name))
    \/ /\ \E method \in Methods, person_id \in PersonIds, name \in TwoNames :
             Respond(edit_person(db, login_session, method, person_id, name))
    \/ /\ \E method \in Methods, person_id \in PersonIds :
             Respond(remove_person(db, login_session, method, person_id))
    \/ /\ \E method \in Methods, person_id \in PersonIds, pending \in BOOLEAN :
             Respond(add_session(db, login_session, method, person_id, Today, 1,
                                 pending, "None"))
    \/ /\ \E method \in Methods, person_id \in PersonIds,
             session_id \in SessionIds, pending \in PendingArgs :
             Respond(update_session(db, login_session, method, person_id,
                                    session_id, Today, 1, pending, "None"))
    \/ /\ \E session_id \in SessionIds :
             Respond(remove_session(db, login_session, session_id))
    \/ /\ \E session_id \in SessionIds :
             Respond(sessions_toggle_pending(db, login_session, session_id))
    \/ /\ Respond(list_patients(db, login_session))
    \/ /\ \E patient_id \in PersonIds :
             Respond(get_patient(db, login_session, patient_id))
    \/ /\ \E name \in TwoNames :
             Respond(create_patient(db, login_session, name))
    \/ /\ \E patient_id \in PersonIds :
             Respond(delete_patient(db, login_session, patient_id))
    \/ /\ \E patient_id \in PersonIds :
             Respond(list_sessions(db, login_session, patient_id))
    \/ /\ \E person_id \in PersonIds, pending \in BOOLEAN :
             Respond(create_session(db, login_session, person_id, Today, 1,
                                    pending, "None"))
    \/ /\ \E session_id \in SessionIds :
             Respond(toggle_session(db, login_session, session_id))
    \/ /\ \E session_id \in SessionIds :
             Respond(delete_session(db, login_session, session_id))
    \/ /\ Respond(get_stats(db, login_session))

SpecWeb == Init /\ [][NextWeb]_vars

(***************************************************************************)
(* SpecRegister: accounts registered under several allow-lists and created *)
(* from the command line, with every email; the audit log swept.           *)
(***************************************************************************)
AllowLists == {{}, {<<"u">>}, {<<"U">>}}

NextRegister ==
    \/ /\ CallRegister(AllowLists, Emails, AuthPasswords, TRUE)
    \/ /\ \E email \in Emails \ {<<>>}, role \in Roles :
             CommitSwept(create_user(db, email, "p", role))
    \/ /\ \E email \in Emails : CommitSwept(deactivate_user(db, email))
    \/ /\ \E email \in Emails : CommitSwept(activate_user(db, email))

SpecRegister == Init /\ [][NextRegister]_vars

(***************************************************************************)
(* SpecSessionRace: concurrent SessionService.create calls, each split     *)
(* into its checks and its try block, next to soft deletes and restores of *)
(* the person; one name, date and price, the audit log swept.              *)
(***************************************************************************)
NextSessionRace ==
    \/ /\ CallCreatePatient(TwoNames, OneUser, TRUE)
    \/ /\ CallCreateSession_check(OneDate, OnePrice, OneUser)
    \/ /\ CallCreateSession_commit(OneDate, OnePrice)
    \/ /\ CallDeletePatient(OneUser, SoftOnly, TRUE)
    \/ /\ CallRestorePatient(OneUser, TRUE)
    \/ /\ CallDeleteSession(OneUser, SoftOnly, TRUE)

SpecSessionRace == Init /\ [][NextSessionRace]_vars

(***************************************************************************)
(* SpecToggleRace: concurrent toggle_payment_status calls, each split into *)
(* its load, its commit and its audit row; persons and sessions are        *)
(* created by whole calls with the audit log swept.                        *)
(***************************************************************************)
NextToggleRace ==
    \/ /\ CallCreatePatient(OneName, OneUser, TRUE)
    \/ /\ CallCreateSession(OneDate, OnePrice, OneUser, NoNotes, TRUE)
    \/ /\ CallTogglePayment_load(OneUser)
    \/ /\ CallTogglePayment_commit
    \/ /\ CallTogglePayment_audit
    \/ /\ CallTogglePayment_respond

SpecToggleRace == Init /\ [][NextToggleRace]_vars

(***************************************************************************)
(* Properties.                                                             *)
(***************************************************************************)
Ok(o) == o.ret[1]

ActiveNames(d) == {d.persons[id].name : id \in query_active(d.persons)}

\* t is s without its leading and trailing blanks.
IsTrimmed(t, s) ==
    /\ \E i, j \in 0..Len(s) :
          /\ i + j <= Len(s)
          /\ t = SubSeq(s, i + 1, Len(s) - j)
          /\ \A k \in 1..i : s[k] = " "
          /\ \A k \in (Len(s) - j + 1)..Len(s) : s[k] = " "
    /\ t # <<>> => t[1] # " " /\ t[Len(t)] # " "

\* C1: a soft delete of an active person whose sessions are all active
\* succeeds and leaves the person and every one of its sessions marked
\* deleted, so that the active-only lookups find none of them.
C1_SoftDeleteCascades ==
    \A p \in query_active(persons), u \in UserIds :
        LET owned == {s \in DOMAIN therapy_sessions :
                         therapy_sessions[s].person_id = p}
            o == PatientService_delete(db, p, u, TRUE)
        IN  (\A s \in owned : therapy_sessions[s].deleted_at = NULL) =>
                /\ Ok(o)
                /\ o.db.persons[p].deleted_at # NULL
                /\ PatientService_get_by_id(o.db, p) = {}
                /\ \A s \in owned :
                      /\ o.db.therapy_sessions[s].deleted_at # NULL
                      /\ SessionService_get_by_id(o.db, s) = {}

\* C1 witness: the soft delete has run on a person with two sessions.
C1_Witness ==
    \E p \in DOMAIN persons :
        /\ persons[p].deleted_at # NULL
        /\ Cardinality({s \in DOMAIN therapy_sessions :
                           therapy_sessions[s].person_id = p}) >= 2
        /\ \A s \in DOMAIN therapy_sessions :
              therapy_sessions[s].person_id = p =>
                  therapy_sessions[s].deleted_at # NULL

\* C2: a session soft-deleted on its own before its person is soft-deleted
\* is still deleted after the person is restored, while the sessions
\* deleted by the person's soft delete are active again.
C2_RestoreOnlyCascaded ==
    \A p \in query_active(persons), u \in UserIds :
        LET owned == {s \in DOMAIN therapy_sessions :
                         therapy_sessions[s].person_id = p}
        IN  \A s \in owned \cap query_active(therapy_sessions) :
                LET o1 == SessionService_delete(db, s, u, TRUE)
                    o2 == PatientService_delete(o1.db, p, u, TRUE)
                    o3 == PatientService_restore(o2.db, p, u)
                IN  /\ Ok(o1) /\ Ok(o2) /\ Ok(o3)
                    /\ o3.db.therapy_sessions[s].deleted_at # NULL
                    /\ \A t \in (owned \cap query_active(therapy_sessions)) \ {s} :
                          o3.db.therapy_sessions[t].deleted_at = NULL

\* C3: creating a patient under a name whose trimmed value is the name of
\* an active person returns (False, None, duplicate name) and leaves the
\* persons and the audit log as they were.
C3_DuplicateNameRejected ==
    \A name \in Names, u \in UserIds :
        LET o == PatientService_create(db, name, u) IN
        (\E n \in ActiveNames(db) : IsTrimmed(n, name)) =>
            /\ o.ret = <<FALSE, NULL, "Ya existe un paciente con ese nombre.">>
            /\ o.db.persons = persons
            /\ o.db.audit_logs = audit_logs

\* C3 witness: an active person exists whose name is reached by a padded
\* input.
C3_Witness ==
    \E name \in Names :
        /\ \E n \in ActiveNames(db) : IsTrimmed(n, name) /\ n # name
        /\ ~Ok(PatientService_create(db, name, 1))

\* C4: once the only person named N is soft-deleted, creating a patient
\* named N succeeds and gives a new active person named N.
C4_DeletedNameReusable ==
    \A p \in query_deleted(persons), u \in UserIds :
        LET n == persons[p].name
            o == PatientService_create(db, n, u)
        IN  (\A q \in DOMAIN persons \ {p} : persons[q].name # n) =>
                /\ Ok(o)
                /\ \E q \in query_active(o.db.persons) \ DOMAIN persons :
                      o.db.persons[q].name = n

\* C5: no two active persons have the same name.
C5_ActiveNamesUnique ==
    \A p, q \in query_active(persons) :
        p # q => persons[p].name # persons[q].name

\* C5 witness: a soft-deleted person can be restored next to an active one,
\* and the two then have different names.
C5_Witness ==
    \E p \in query_deleted(persons) :
        LET o == PatientService_restore(db, p, 1) IN
        /\ query_active(persons) # {}
        /\ Ok(o)
        /\ Cardinality(query_active(o.db.persons)) >= 2

\* The audit row of a payment toggle of session s from pending = v.
ToggleRow(s, v, u) ==
    [action |-> "UPDATE",
     table_name |-> "therapy_sessions",
     record_id |-> s,
     user_id |-> u,
     old_values |-> [pending |-> v],
     new_values |-> [pending |-> ~v],
     timestamp |-> utcnow]

\* C6: two successive payment toggles of an active session with pending = v
\* succeed, return not-v and then v, leave pending = v, and each appends
\* one UPDATE row for therapy_sessions holding the old and the new value.
C6_ToggleTwice ==
    \A s \in query_active(therapy_sessions), u1, u2 \in UserIds :
        LET v == therapy_sessions[s].pending
            o1 == SessionService_toggle_payment_status(db, s, u1)
            o2 == SessionService_toggle_payment_status(o1.db, s, u2)
        IN  /\ Ok(o1) /\ o1.ret[2] = PyBool(~v)
            /\ o1.db.therapy_sessions[s].pending = ~v
            /\ o1.db.audit_logs = Append(audit_logs, ToggleRow(s, v, u1))
            /\ Ok(o2) /\ o2.ret[2] = PyBool(v)
            /\ o2.db.therapy_sessions[s].pending = v
            /\ o2.db.audit_logs = Append(o1.db.audit_logs, ToggleRow(s, ~v, u2))
            /\ o2.db.therapy_sessions = therapy_sessions

\* C6 witness: the last two audit rows are two toggles of one session that
\* is still active.
C6_Witness ==
    /\ Len(audit_logs) >= 2
    /\ \E s \in query_active(therapy_sessions) :
          LET v == therapy_sessions[s].pending IN
          /\ [audit_logs[Len(audit_logs) - 1] EXCEPT !.timestamp = utcnow]
                = ToggleRow(s, v, 1)
          /\ [audit_logs[Len(audit_logs)] EXCEPT !.timestamp = utcnow]
                = ToggleRow(s, ~v, 1)

\* One row was appended to the stored audit log, with this action, table
\* and record id.
AppendsOne(o, action, table_name, record_id) ==
    /\ Len(o.db.audit_logs) = Len(audit_logs) + 1
    /\ SubSeq(o.db.audit_logs, 1, Len(audit_logs)) = audit_logs
    /\ LET row == o.db.audit_logs[Len(o.db.audit_logs)] IN
       /\ row.action = action
       /\ row.table_name = table_name
       /\ row.record_id = record_id

\* C7: every successful create, update, soft delete or toggle of a patient
\* or a session appends exactly one audit row, with action CREATE, UPDATE,
\* SOFT_DELETE or UPDATE, table 'persons' or 'therapy_sessions', and the id
\* of the record; a cascading soft delete of a patient appends one row too.
C7_OneAuditRowPerCall ==
    /\ \A name \in Names, u \in UserIds :
          LET o == PatientService_create(db, name, u) IN
          Ok(o) => /\ AppendsOne(o, "CREATE", "persons", o.ret[2])
                   /\ DOMAIN o.db.persons \ DOMAIN persons = {o.ret[2]}
    /\ \A p \in PersonIds, name \in Names, u \in UserIds :
          LET o == PatientService_update(db, p, name, u) IN
          Ok(o) => AppendsOne(o, "UPDATE", "persons", p)
    /\ \A p \in PersonIds, u \in UserIds :
          LET o == PatientService_delete(db, p, u, TRUE) IN
          Ok(o) => AppendsOne(o, "SOFT_DELETE", "persons", p)
    /\ \A p \in PersonIds, date \in Dates, price \in Prices, u \in UserIds,
          pending \in BOOLEAN :
          LET o == SessionService_create(db, p, date, price, u, pending, "None") IN
          Ok(o) => /\ AppendsOne(o, "CREATE", "therapy_sessions", o.ret[2])
                   /\ DOMAIN o.db.therapy_sessions \ DOMAIN therapy_sessions
                          = {o.ret[2]}
    /\ \A s \in SessionIds, date \in Dates, price \in Prices, u \in UserIds,
          pending \in PendingArgs :
          LET o == SessionService_update(db, s, date, price, u, pending, "None") IN
          Ok(o) => AppendsOne(o, "UPDATE", "therapy_sessions", s)
    /\ \A s \in SessionIds, u \in UserIds :
          LET o == SessionService_delete(db, s, u, TRUE) IN
          Ok(o) => AppendsOne(o, "SOFT_DELETE", "therapy_sessions", s)
    /\ \A s \in SessionIds, u \in UserIds :
          LET o == SessionService_toggle_payment_status(db, s, u) IN
          Ok(o) => AppendsOne(o, "UPDATE", "therapy_sessions", s)

\* C7 witness: the audit log holds a row already, and its last row is the
\* soft delete of a patient that took two sessions with it.
C7_Witness ==
    /\ Len(audit_logs) >= 2
    /\ LET row == audit_logs[Len(audit_logs)] IN
       /\ row.action = "SOFT_DELETE"
       /\ row.table_name = "persons"
       /\ row.record_id \in query_deleted(persons)
       /\ Cardinality({s \in query_deleted(therapy_sessions) :
                          therapy_sessions[s].person_id = row.record_id}) >= 2

\* C8: no stored session has a price of zero or less: creating or updating
\* a session with such a price fails and changes nothing, with the price
\* message once the patient (the session) is found; a positive price is
\* accepted.
C8_PricePositive ==
    /\ \A s \in DOMAIN therapy_sessions : therapy_sessions[s].session_price > 0
    /\ \A p \in PersonIds, date \in Dates, price \in Prices, u \in UserIds,
          pending \in BOOLEAN :
          LET o == SessionService_create(db, p, date, price, u, pending, "None") IN
          /\ price <= 0 =>
                /\ ~Ok(o) /\ o.ret[2] = NULL /\ o.db = db
                /\ p \in query_active(persons) => o.ret[3] = "El precio debe ser mayor a cero."
          /\ (price > 0 /\ p \in query_active(persons) /\ date <= Today + 7) =>
                /\ Ok(o)
                /\ o.db.therapy_sessions[o.ret[2]].session_price = price
    /\ \A s \in SessionIds, date \in Dates, price \in Prices, u \in UserIds,
          pending \in PendingArgs :
          LET o == SessionService_update(db, s, date, price, u, pending, "None") IN
          /\ price <= 0 =>
                /\ ~Ok(o) /\ o.ret[2] = NULL /\ o.db = db
                /\ s \in query_active(therapy_sessions) =>
                      o.ret[3] = "El precio debe ser mayor a cero."
          /\ (price > 0 /\ s \in query_active(therapy_sessions)) =>
                /\ Ok(o)
                /\ o.db.therapy_sessions[s].session_price = price

\* C8 witness: sessions are stored at the smallest price and at a larger
\* one, and a zero price is refused for an active session.
C8_Witness ==
    /\ \E s \in DOMAIN therapy_sessions : therapy_sessions[s].session_price = 1
    /\ \E s \in query_active(therapy_sessions) :
          /\ therapy_sessions[s].session_price > 1
          /\ ~Ok(SessionService_update(db, s, Today, 0, 1, "None", "None"))

DaysAround == (Today - 9)..(Today + 9)

\* C9: for an active patient and a positive price, creating a session
\* succeeds for every date up to today + 7 days, past dates included, and
\* fails with the advance-scheduling message, creating nothing, from
\* today + 8 days on.
C9_SevenDaysAhead ==
    \A p \in query_active(persons), date \in DaysAround, u \in UserIds,
       pending \in BOOLEAN :
        \A price \in {x \in Prices : x > 0} :
            LET o == SessionService_create(db, p, date, price, u, pending, "None") IN
            /\ date <= Today + 7 =>
                  /\ Ok(o)
                  /\ o.ret[2] \notin DOMAIN therapy_sessions
                  /\ o.db.therapy_sessions[o.ret[2]].session_date = date
                  /\ o.db.therapy_sessions[o.ret[2]].person_id = p
            /\ date >= Today + 8 =>
                  /\ o.ret = <<FALSE, NULL, "No se pueden agendar sesiones con mas de 7 dias de anticipacion.">>
                  /\ o.db = db

\* C9 witness: a session dated today + 7 and one dated in the past are
\* stored, and the patient is active for a further call.
C9_Witness ==
    /\ \E s \in DOMAIN therapy_sessions :
          /\ therapy_sessions[s].session_date = Today + 7
          /\ therapy_sessions[s].person_id \in query_active(persons)
    /\ \E s \in DOMAIN therapy_sessions : therapy_sessions[s].session_date < Today

\* C10: under every filter the dashboard has a key (id, name) for every
\* active person, and a person without a session that matches the filter
\* has the empty sequence.
C10_EveryActivePersonListed ==
    \A f \in {ALL_FILTER, PENDING_FILTER, PAID_FILTER} :
        LET g == get_dashboard_data(db, f).grouped_sessions
            Matches(p) ==
                {s \in query_active(therapy_sessions) :
                    /\ therapy_sessions[s].person_id = p
                    /\ f = PENDING_FILTER => therapy_sessions[s].pending
                    /\ f = PAID_FILTER => ~therapy_sessions[s].pending}
        IN  /\ DOMAIN g = {<<p, persons[p].name>> : p \in query_active(persons)}
            /\ \A p \in query_active(persons) :
                  Matches(p) = {} => g[<<p, persons[p].name>>] = <<>>

\* The filter tokens a caller may pass; the last one is none of the three.
ShowFilters == {ALL_FILTER, PENDING_FILTER, PAID_FILTER, "unpaid"}

\* The sessions the dashboard is to list under filter f.
Listable(d, f) ==
    {s \in query_active(d.therapy_sessions) :
        /\ d.therapy_sessions[s].person_id \in query_active(d.persons)
        /\ f = PENDING_FILTER => d.therapy_sessions[s].pending
        /\ f = PAID_FILTER => ~d.therapy_sessions[s].pending}

\* The places (key, index) of the session rows in a dashboard grouping.
Listed(g) == UNION {{<<k, i>> : i \in 1..Len(g[k])} : k \in DOMAIN g}

\* C11: under every filter token the dashboard lists each active session
\* of an active person that matches the filter exactly once, under the key
\* (id, name) of its owner, lists nothing else (no soft-deleted session, no
\* session of a soft-deleted person), and total is the number of session
\* rows listed.
C11_DashboardListsMatchingSessions ==
    \A f \in ShowFilters :
        LET r == get_dashboard_data(db, f)
            g == r.grouped_sessions
        IN  /\ \A x \in Listed(g) :
                  LET s == g[x[1]][x[2]][1] IN
                  /\ s \in Listable(db, f)
                  /\ x[1] = <<therapy_sessions[s].person_id,
                              persons[therapy_sessions[s].person_id].name>>
            /\ \A s \in Listable(db, f) :
                  Cardinality({x \in Listed(g) : g[x[1]][x[2]][1] = s}) = 1
            /\ r.total = Cardinality(Listed(g))

\* C11 witness: one person has a pending and a paid session, so the filters
\* separate them and the unknown token lists both.
C11_Witness ==
    /\ get_dashboard_data(db, PENDING_FILTER).total = 1
    /\ get_dashboard_data(db, PAID_FILTER).total = 1
    /\ get_dashboard_data(db, "unpaid").total = 2
    /\ Cardinality(DOMAIN get_dashboard_data(db, ALL_FILTER).grouped_sessions) = 1

\* The sum of the prices of the sessions in S, counted cent by cent.
PriceSum(d, S) ==
    Cardinality(UNION {{<<s, c>> : c \in 1..d.therapy_sessions[s].session_price}
                          : s \in S})

\* C12: calculate_totals(person_id) returns as pending_total the sum of the
\* prices of that person's active pending sessions, as paid_total the sum
\* over that person's active paid sessions and as grand_total their sum;
\* without a person_id the sums range over all active sessions; a
\* soft-deleted session adds to none of the three.
C12_CalculateTotals ==
    \A p \in {NULL} \cup PersonIds :
        LET t == calculate_totals(db, p)
            mine == {s \in DOMAIN therapy_sessions :
                        /\ therapy_sessions[s].deleted_at = NULL
                        /\ p # NULL => therapy_sessions[s].person_id = p}
        IN  /\ t.pending_total =
                  PriceSum(db, {s \in mine : therapy_sessions[s].pending})
            /\ t.paid_total =
                  PriceSum(db, {s \in mine : ~therapy_sessions[s].pending})
            /\ t.grand_total = t.pending_total + t.paid_total

\* C12 witness: two persons with totals that differ from each other and
\* from the total over all sessions, one pending and one paid, and a soft
\* delete of a session takes its price out of the totals.
C12_Witness ==
    /\ calculate_totals(db, 1).grand_total = 2
    /\ calculate_totals(db, 2).grand_total = 1
    /\ calculate_totals(db, NULL).pending_total > 0
    /\ calculate_totals(db, NULL).paid_total > 0
    /\ \E s \in query_active(therapy_sessions) :
          LET o == SessionService_delete(db, s, 1, TRUE) IN
          /\ Ok(o)
          /\ calculate_totals(o.db, NULL).grand_total = 1

\* C13: for every active person the aggregates Person.pending_total,
\* Person.total_paid and Person.total_sessions_value are the pending_total,
\* paid_total and grand_total that calculate_totals returns for that
\* person, so they sum over the person's active sessions only.
C13_PersonAggregatesMatchTotals ==
    \A p \in query_active(persons) :
        LET t == calculate_totals(db, p) IN
        /\ Person_pending_total(db, p) = t.pending_total
        /\ Person_total_paid(db, p) = t.paid_total
        /\ Person_total_sessions_value(db, p) = t.grand_total

Limits == {1, 2, 10}

Elements(seq) == {seq[i] : i \in 1..Len(seq)}

\* C14: the default queries leave out soft-deleted records: get_by_id,
\* get_all_active and get_for_select of the patients return no soft-deleted
\* person (and every active one), get_by_id and get_recent_sessions of the
\* sessions return no soft-deleted session, and get_session_with_person
\* returns a row only for an active session of the given, active person.
C14_DefaultQueriesSkipDeleted ==
    LET LivePersons == {p \in DOMAIN persons : persons[p].deleted_at = NULL}
        LiveSessions == {s \in DOMAIN therapy_sessions :
                            therapy_sessions[s].deleted_at = NULL}
    IN  /\ \A p \in PersonIds :
              PatientService_get_by_id(db, p) = {p} \cap LivePersons
        /\ Elements(PatientService_get_all_active(db)) = LivePersons
        /\ Len(PatientService_get_all_active(db)) = Cardinality(LivePersons)
        /\ Elements(PatientService_get_for_select(db))
              = {<<p, persons[p].name>> : p \in LivePersons}
        /\ \A s \in SessionIds :
              SessionService_get_by_id(db, s) = {s} \cap LiveSessions
        /\ \A limit \in Limits :
              LET recent == SessionService_get_recent_sessions(db, limit) IN
              /\ Elements(recent) \subseteq LiveSessions
              /\ Len(recent) <= limit
              /\ Cardinality(LiveSessions) <= limit =>
                    Elements(recent) = LiveSessions
        /\ \A s \in SessionIds, p \in PersonIds :
              LET r == SessionService_get_session_with_person(db, s, p) IN
              IF /\ s \in LiveSessions
                 /\ p \in LivePersons
                 /\ therapy_sessions[s].person_id = p
              THEN r = {[name |-> persons[p].name,
                         date |-> therapy_sessions[s].session_date,
                         price |-> therapy_sessions[s].session_price,
                         pending |-> therapy_sessions[s].pending]}
              ELSE r = {}

\* C14 witness: an active person with an active and a soft-deleted session
\* next to a soft-deleted person.
C14_Witness ==
    /\ query_deleted(persons) # {}
    /\ \E p \in query_active(persons) :
          /\ \E s \in query_active(therapy_sessions) :
                therapy_sessions[s].person_id = p
          /\ \E s \in query_deleted(therapy_sessions) :
                therapy_sessions[s].person_id = p
          /\ SessionService_get_recent_sessions(db, 10) # <<>>

\* The rows of seq at the positions in keep, in their order.
RECURSIVE RowsAt(_, _, _)
RowsAt(seq, keep, i) ==
    IF i > Len(seq) THEN <<>>
    ELSE (IF i \in keep THEN <<seq[i]>> ELSE <<>>) \o RowsAt(seq, keep, i + 1)

\* C15: cleanup_old_logs(days) deletes exactly the audit rows with a
\* timestamp before now - days, leaves the other rows and the other tables
\* as they were and returns the number of rows deleted; with days = 0 it
\* deletes every existing row and returns their number.
C15_CleanupOldLogs ==
    \A days \in DaysArgs :
        LET o == cleanup_old_logs(db, days)
            old == {i \in 1..Len(audit_logs) :
                       audit_logs[i].timestamp < utcnow - days}
        IN  /\ o.db.audit_logs = RowsAt(audit_logs, (1..Len(audit_logs)) \ old, 1)
            /\ o.ret = Cardinality(old)
            /\ o.db.persons = persons
            /\ o.db.therapy_sessions = therapy_sessions
            /\ days = 0 => o.db.audit_logs = <<>> /\ o.ret = Len(audit_logs)

\* C15 witness: of two rows, one a day old and one older, the cleanup with
\* days = 1 deletes the older one only and the cleanup with days = 0 both.
C15_Witness ==
    /\ Len(audit_logs) = 2
    /\ audit_logs[2].timestamp = utcnow - 1
    /\ cleanup_old_logs(db, 1).ret = 1
    /\ cleanup_old_logs(db, 1).db.audit_logs = <<audit_logs[2]>>
    /\ cleanup_old_logs(db, 0).ret = 2

\* The audit rows of before, days later, are the first rows of after.
KeepsRows(before, after, days) ==
    /\ Len(before) <= Len(after)
    /\ \A i \in 1..Len(before) :
          after[i] = [before[i] EXCEPT !.timestamp = @ - days]

\* C16: the audit log is append-only: a step of a patient, session or
\* authentication call, a hard delete and a failed call included, leaves
\* every audit row that was written as it was (its timestamp moving into
\* the past as time passes) and in its place; only a cleanup_old_logs step
\* removes rows.
C16_AuditLogAppendOnly ==
    [][\/ \E days \in ElapsedDays : KeepsRows(audit_logs, audit_logs', days)
       \/ CallCleanupOldLogs]_vars

\* C16 witness: the audit row of a patient that has since been hard-deleted
\* is still in the log, under the row of the hard delete.
C16_Witness ==
    /\ Len(audit_logs) >= 2
    /\ audit_logs[1].action = CREATE
    /\ audit_logs[1].table_name = "persons"
    /\ audit_logs[1].record_id \notin DOMAIN persons
    /\ audit_logs[2].action = DELETE
    /\ audit_logs[2].table_name = "persons"

\* The tables as a call finds them when its audit write fails or not.
During(fails) == [db EXCEPT !.audit_write_fails = fails]

\* The call with the audit write failing (bad) against the same call with
\* the audit write working (ok): a failed result with the generic message,
\* the tables of the successful call, and no audit row.
FailsAfterCommit(ok, bad, ret) ==
    Ok(ok) =>
        /\ bad.ret = ret
        /\ bad.db.persons = ok.db.persons
        /\ bad.db.therapy_sessions = ok.db.therapy_sessions
        /\ bad.db.audit_logs = audit_logs
        /\ Len(ok.db.audit_logs) = Len(audit_logs) + 1

\* C17: when the audit write fails after the mutation of a create, update,
\* delete, toggle or restore call has been committed, the call returns a
\* failed result with its generic message, the mutation stays stored as
\* the successful call leaves it, and no audit row is added for it.
C17_AuditFailureAfterCommit ==
    /\ \A name \in Names, u \in UserIds :
          FailsAfterCommit(PatientService_create(During(FALSE), name, u),
                           PatientService_create(During(TRUE), name, u),
                           <<FALSE, NULL, "Error al crear el paciente. Intente nuevamente.">>)
    /\ \A p \in PersonIds, name \in Names, u \in UserIds :
          FailsAfterCommit(PatientService_update(During(FALSE), p, name, u),
                           PatientService_update(During(TRUE), p, name, u),
                           <<FALSE, NULL, "Error al actualizar el paciente. Intente nuevamente.">>)
    /\ \A p \in PersonIds, u \in UserIds, soft \in BOOLEAN :
          FailsAfterCommit(PatientService_delete(During(FALSE), p, u, soft),
                           PatientService_delete(During(TRUE), p, u, soft),
                           <<FALSE, "Error al eliminar el paciente. Intente nuevamente.">>)
    /\ \A p \in PersonIds, u \in UserIds :
          FailsAfterCommit(PatientService_restore(During(FALSE), p, u),
                           PatientService_restore(During(TRUE), p, u),
                           <<FALSE, "Error al restaurar el paciente. Intente nuevamente.">>)
    /\ \A p \in PersonIds, date \in Dates, price \in Prices, u \in UserIds,
          pending \in BOOLEAN :
          FailsAfterCommit(
              SessionService_create(During(FALSE), p, date, price, u, pending, "None"),
              SessionService_create(During(TRUE), p, date, price, u, pending, "None"),
              <<FALSE, NULL, "Error al crear la sesion. Intente nuevamente.">>)
    /\ \A s \in SessionIds, date \in Dates, price \in Prices, u \in UserIds,
          pending \in PendingArgs :
          FailsAfterCommit(
              SessionService_update(During(FALSE), s, date, price, u, pending, "None"),
              SessionService_update(During(TRUE), s, date, price, u, pending, "None"),
              <<FALSE, NULL, "Error al actualizar la sesion. Intente nuevamente.">>)
    /\ \A s \in SessionIds, u \in UserIds, soft \in BOOLEAN :
          FailsAfterCommit(SessionService_delete(During(FALSE), s, u, soft),
                           SessionService_delete(During(TRUE), s, u, soft),
                           <<FALSE, "Error al eliminar la sesion. Intente nuevamente.">>)
    /\ \A s \in SessionIds, u \in UserIds :
          FailsAfterCommit(
              SessionService_toggle_payment_status(During(FALSE), s, u),
              SessionService_toggle_payment_status(During(TRUE), s, u),
              <<FALSE, "None", "Error al actualizar el estado. Intente nuevamente.">>)

\* C17 witness: a patient and a session are stored and the session is
\* soft-deleted while the audit log holds no row, and a further call
\* would lose its audit row too.
C17_Witness ==
    /\ audit_logs = <<>>
    /\ query_active(persons) # {}
    /\ \E s \in query_deleted(therapy_sessions) :
          therapy_sessions[s].person_id \in query_active(persons)
    /\ \E s \in query_active(therapy_sessions) :
          ~Ok(SessionService_toggle_payment_status(During(TRUE), s, 1))

\* A create call that passed its pre-check and whose name another call has
\* stored as an active person since.
LosesRace(r) ==
    /\ in_flight[r].pc = "checked"
    /\ get_by_name(db, in_flight[r].name) # {}

\* What the try block of request r returns to its caller now.
TryOutcome(r) ==
    PatientService_create_try(db, in_flight[r].name, in_flight[r].user_id)

\* The try block of a create call that lost the race stores nothing.
RaceStoresAtMostOne ==
    \A r \in RequestIds :
        LosesRace(r) =>
            /\ TryOutcome(r).db = db
            /\ TryOutcome(r).ret[1] = FALSE

\* C18: when two PatientService.create calls with the same name both pass
\* the duplicate pre-check, the call that commits second stores nothing and
\* returns a failed result whose message is the duplicate-name message, not
\* the generic failure message.
C18_RaceLoserToldDuplicate ==
    \A r \in RequestIds :
        LosesRace(r) =>
            /\ TryOutcome(r).db = db
            /\ TryOutcome(r).ret =
                   <<FALSE, NULL, "Ya existe un paciente con ese nombre.">>

\* The failed result of a call that also left every table as it was.
Refused(o) == ~Ok(o) /\ o.db = db

Blank(name) == strip(name) = <<>>

\* An active person other than person_id holds the name already.
Taken(name, person_id) ==
    \E id \in query_active(persons) :
        id # person_id /\ persons[id].name = strip(name)

PersonGone(p) == p \notin DOMAIN persons \/ persons[p].deleted_at # NULL

SessionGone(s) ==
    s \notin DOMAIN therapy_sessions \/ therapy_sessions[s].deleted_at # NULL

\* C19: a service call that fails on validation or not-found (blank name,
\* duplicate name, non-positive price, date more than seven days ahead,
\* person or session absent or soft-deleted) returns a failed tuple and
\* leaves persons, therapy sessions and the audit log as they were; update,
\* toggle and delete aimed at a soft-deleted session or person answer "not
\* found".
C19_FailuresChangeNothing ==
    /\ \A name \in Names, u \in UserIds :
          (Blank(name) \/ Taken(name, NULL)) =>
              Refused(PatientService_create(db, name, u))
    /\ \A p \in PersonIds, name \in Names, u \in UserIds :
          LET o == PatientService_update(db, p, name, u) IN
          /\ (PersonGone(p) \/ Blank(name) \/ Taken(name, p)) => Refused(o)
          /\ PersonGone(p) => o.ret[3] = "Paciente no encontrado."
    /\ \A p \in PersonIds, u \in UserIds, soft \in BOOLEAN :
          PersonGone(p) =>
              LET o == PatientService_delete(db, p, u, soft) IN
              Refused(o) /\ o.ret[2] = "Paciente no encontrado."
    /\ \A p \in PersonIds, u \in UserIds :
          (p \notin DOMAIN persons \/ persons[p].deleted_at = NULL) =>
              Refused(PatientService_restore(db, p, u))
    /\ \A p \in PersonIds, date \in Dates, price \in Prices, u \in UserIds,
          pending \in BOOLEAN :
          LET o == SessionService_create(db, p, date, price, u, pending, "None") IN
          /\ (PersonGone(p) \/ price <= 0 \/ date > Today + MaxAdvanceDays)
                => Refused(o)
          /\ PersonGone(p) => o.ret[3] = "Paciente no encontrado."
    /\ \A s \in SessionIds, date \in Dates, price \in Prices, u \in UserIds,
          pending \in PendingArgs :
          LET o == SessionService_update(db, s, date, price, u, pending, "None") IN
          /\ (SessionGone(s) \/ price <= 0) => Refused(o)
          /\ SessionGone(s) => o.ret[3] = "Sesion no encontrada."
    /\ \A s \in SessionIds, u \in UserIds, soft \in BOOLEAN :
          SessionGone(s) =>
              LET o == SessionService_delete(db, s, u, soft) IN
              Refused(o) /\ o.ret[2] = "Sesion no encontrada."
    /\ \A s \in SessionIds, u \in UserIds :
          SessionGone(s) =>
              LET o == SessionService_toggle_payment_status(db, s, u) IN
              Refused(o) /\ o.ret[3] = "Sesion no encontrada."

\* An active person next to a soft-deleted one, one of its sessions
\* soft-deleted, and update, toggle and delete of that session refused.
C19_Witness ==
    /\ query_active(persons) # {}
    /\ query_deleted(persons) # {}
    /\ \E s \in query_deleted(therapy_sessions) :
          /\ therapy_sessions[s].person_id \in query_active(persons)
          /\ Refused(SessionService_update(db, s, Today, 1, 1, "None", "None"))
          /\ Refused(SessionService_toggle_payment_status(db, s, 1))
          /\ Refused(SessionService_delete(db, s, 1, TRUE))

\* The value of the optional pending argument, where one was given.
Given(pending) == pending = "True"

\* C20: SessionService.update fails exactly when the session is not among
\* the active ones or the price is <= 0, whatever the new date; when it
\* succeeds the date, price and notes are the arguments, pending is the
\* argument when one was given and the old value when it was None, nothing
\* else changes, and one UPDATE audit row holds the row as it was before
\* the call as old values.
C20_SessionUpdate ==
    \A s \in SessionIds, date \in Dates, price \in Prices, u \in UserIds,
       pending \in PendingArgs, notes \in Notes :
        LET o == SessionService_update(db, s, date, price, u, pending, notes) IN
        /\ Ok(o) <=> ~(SessionGone(s) \/ price <= 0)
        /\ Ok(o) =>
              LET old == therapy_sessions[s]
                  new == o.db.therapy_sessions[s]
                  row == o.db.audit_logs[Len(o.db.audit_logs)]
              IN  /\ new.session_date = date
                  /\ new.session_price = price
                  /\ new.notes = notes
                  /\ new.pending = IF pending = "None" THEN old.pending
                                   ELSE Given(pending)
                  /\ o.db.therapy_sessions =
                         [therapy_sessions EXCEPT ![s] =
                             [session_date |-> date,
                              session_price |-> price,
                              notes |-> notes,
                              pending |-> new.pending,
                              person_id |-> old.person_id,
                              deleted_at |-> old.deleted_at,
                              deleted_by_id |-> old.deleted_by_id]]
                  /\ o.db.persons = persons
                  /\ AppendsOne(o, UPDATE, "therapy_sessions", s)
                  /\ row.old_values = [id |-> s,
                                       person_id |-> old.person_id,
                                       session_date |-> old.session_date,
                                       session_price |-> old.session_price,
                                       pending |-> old.pending,
                                       notes |-> old.notes]

\* A paid session with notes, updated without a pending argument to a date
\* beyond the seven days and to no notes: it stays paid.
C20_Witness ==
    \E s \in query_active(therapy_sessions) :
        /\ ~therapy_sessions[s].pending
        /\ therapy_sessions[s].notes = "n"
        /\ therapy_sessions[s].session_date = Today - 1
        /\ LET o == SessionService_update(db, s, Today + MaxAdvanceDays + 1,
                                          2, 1, "None", "None")
           IN  /\ Ok(o)
               /\ ~o.db.therapy_sessions[s].pending
               /\ o.db.therapy_sessions[s].notes = "None"
               /\ o.db.therapy_sessions[s].session_date > Today + MaxAdvanceDays

\* C21: PatientService.update of an active person with a non-blank name
\* answers with the duplicate message, changing nothing, exactly when a
\* different active person holds the trimmed name, and succeeds when the
\* trimmed name is the person's own; it fails, changing nothing, when the
\* person is not active or the name is blank.
C21_UpdateOwnName ==
    \A p \in PersonIds, name \in Names, u \in UserIds :
        LET o == PatientService_update(db, p, name, u) IN
        /\ (PersonGone(p) \/ Blank(name)) => Refused(o)
        /\ (~PersonGone(p) /\ ~Blank(name)) =>
              /\ (o.ret[3] = "Ya existe otro paciente con ese nombre.")
                    <=> Taken(name, p)
              /\ Taken(name, p) => Refused(o)
              /\ strip(name) = persons[p].name =>
                    /\ Ok(o)
                    /\ o.ret[2] = p
                    /\ o.db.persons = persons

\* Two active persons: the first is updated to its own name written with a
\* blank around it, and to the name of the second.
C21_Witness ==
    /\ DOMAIN persons = {1, 2}
    /\ query_active(persons) = {1, 2}
    /\ persons[1].name = <<"a">>
    /\ persons[2].name = <<"b">>
    /\ Ok(PatientService_update(db, 1, <<" ", "a">>, 1))
    /\ Refused(PatientService_update(db, 1, <<"b">>, 1))

\* C22: PatientService.restore fails, changing no record and writing no
\* audit row, when no person has the id or the person is not soft-deleted;
\* on a soft-deleted person it clears deleted_at and deleted_by_id of the
\* person and appends exactly one RESTORE audit row for it.
C22_Restore ==
    \A p \in PersonIds, u \in UserIds :
        LET o == PatientService_restore(db, p, u) IN
        /\ (p \notin DOMAIN persons \/ persons[p].deleted_at = NULL) =>
              Refused(o)
        /\ (p \in DOMAIN persons /\ persons[p].deleted_at # NULL) =>
              /\ Ok(o)
              /\ o.db.persons = [persons EXCEPT ![p].deleted_at = NULL,
                                                ![p].deleted_by_id = NULL]
              /\ AppendsOne(o, RESTORE, "persons", p)

\* A person soft-deleted by a known user, with the audit row of that delete
\* in the log, is restored.
C22_Witness ==
    \E p \in query_deleted(persons) :
        /\ persons[p].deleted_by_id # NULL
        /\ audit_logs # <<>>
        /\ Ok(PatientService_restore(db, p, 1))

\* A login session that names no user able to sign in.
Unauthenticated(user_id) ==
    \/ user_id = NULL
    \/ user_id \notin DOMAIN users
    \/ ~users[user_id].is_active

\* The request was turned away and nothing was written.
Denied(o) ==
    /\ o.db = db
    /\ \/ o.ret.status = 401
       \/ o.ret.status = 302 /\ o.ret.location = "auth.login"

\* C23: a request without an authenticated user to any patient, session,
\* dashboard or statistics route, web or API, is answered with the redirect
\* to login or with 401, and persons, therapy sessions and the audit log
\* stay as they were.
C23_RoutesRequireLogin ==
    \A user_id \in {NULL} \cup UserRowIds :
        Unauthenticated(user_id) =>
            /\ Denied(main_index(db, user_id))
            /\ Denied(patients_index(db, user_id))
            /\ Denied(list_patients(db, user_id))
            /\ Denied(get_stats(db, user_id))
            /\ \A method \in Methods, name \in Names :
                  /\ Denied(add_person(db, user_id, method, name))
                  /\ Denied(create_patient(db, user_id, name))
                  /\ \A p \in PersonIds :
                        Denied(edit_person(db, user_id, method, p, name))
            /\ \A method \in Methods, p \in PersonIds :
                  /\ Denied(remove_person(db, user_id, method, p))
                  /\ Denied(delete_patient(db, user_id, p))
                  /\ Denied(get_patient(db, user_id, p))
                  /\ Denied(list_sessions(db, user_id, p))
            /\ \A method \in Methods, p \in PersonIds, pending \in BOOLEAN :
                  /\ Denied(add_session(db, user_id, method, p, Today, 1,
                                        pending, "None"))
                  /\ Denied(create_session(db, user_id, p, Today, 1, pending,
                                           "None"))
            /\ \A method \in Methods, p \in PersonIds, s \in SessionIds,
                  pending \in PendingArgs :
                  Denied(update_session(db, user_id, method, p, s, Today, 1,
                                        pending, "None"))
            /\ \A s \in SessionIds :
                  /\ Denied(remove_session(db, user_id, s))
                  /\ Denied(sessions_toggle_pending(db, user_id, s))
                  /\ Denied(toggle_session(db, user_id, s))
                  /\ Denied(delete_session(db, user_id, s))

\* Nobody is signed in any more, a patient with a session is stored, and
\* the delete and toggle requests are turned away.
C23_Witness ==
    /\ login_session = NULL
    /\ users # <<>>
    /\ \E s \in query_active(therapy_sessions) :
          /\ therapy_sessions[s].person_id \in query_active(persons)
          /\ Denied(remove_person(db, NULL, "POST", therapy_sessions[s].person_id))
          /\ Denied(toggle_session(db, NULL, s))

\* The users a login with this email and password is for: the email as
\* stored, the account active and not soft-deleted, the password right.
SignsIn(table, email, password) ==
    {id \in DOMAIN table :
        /\ email # <<>> /\ password # ""
        /\ table[id].email = strip(lower(email))
        /\ table[id].is_active
        /\ table[id].deleted_at = NULL
        /\ table[id].password_hash = generate_password_hash(password)}

\* The rows a call appended to the audit log.
Appended(o) == SubSeq(o.db.audit_logs, Len(audit_logs) + 1, Len(o.db.audit_logs))

\* authenticate answers as the claim says for the users table of d.
AuthenticatesOnly(d, email, password) ==
    LET o == AuthService_authenticate(d, email, password)
        known == SignsIn(d.users, email, password)
    IN  /\ Ok(o) <=> known # {}
        /\ Ok(o) =>
              /\ o.ret[2] \in known
              /\ o.db.users = [d.users EXCEPT ![o.ret[2]].last_login_at = utcnow]
              /\ Len(Appended(o)) = 1
              /\ Appended(o)[1].action = LOGIN
              /\ Appended(o)[1].user_id = o.ret[2]
              /\ Appended(o)[1].record_id = o.ret[2]
        /\ ~Ok(o) =>
              /\ o.ret[2] = NULL
              /\ o.db.users = d.users
              /\ \A i \in DOMAIN Appended(o) : Appended(o)[i].action # LOGIN
        /\ \A id \in DOMAIN d.users :
              (/\ password # ""
               /\ d.users[id].email = strip(lower(email))
               /\ d.users[id].is_active
               /\ d.users[id].deleted_at = NULL
               /\ id \notin known) =>
                  /\ Len(Appended(o)) = 1
                  /\ Appended(o)[1].action = LOGIN_FAILED
                  /\ Appended(o)[1].record_id = id
                  /\ Appended(o)[1].user_id = NULL
        /\ SubSeq(o.db.audit_logs, 1, Len(audit_logs)) = audit_logs
        /\ o.db.persons = persons
        /\ o.db.therapy_sessions = therapy_sessions

\* C24: AuthService.authenticate succeeds, returning the user, only for a
\* user stored under the normalized email that is active, not soft-deleted
\* and whose password matches; it then sets last_login_at and appends one
\* LOGIN row with user_id = record_id = the user's id.  Otherwise it
\* returns (False, None, message), leaves last_login_at as it was and appends
\* no LOGIN row; a wrong password for an existing active user appends one
\* LOGIN_FAILED row with no user_id.  The same holds when the stored user
\* carries a soft-delete mark.
C24_Authenticate ==
    \A email \in Emails, password \in Passwords :
        /\ AuthenticatesOnly(db, email, password)
        /\ \A id \in DOMAIN users :
              AuthenticatesOnly([db EXCEPT !.users[id] = soft_delete(@, NULL)],
                                email, password)

\* An active user that has signed in before, rows in the audit log, and a
\* login with the right and with a wrong password.
C24_Witness ==
    /\ audit_logs # <<>>
    /\ \E id \in DOMAIN users :
          /\ users[id].is_active
          /\ users[id].last_login_at # NULL
          /\ users[id].password_hash = generate_password_hash("p")
          /\ Ok(AuthService_authenticate(db, <<"U", " ">>, "p"))
          /\ ~Ok(AuthService_authenticate(db, <<"u">>, "q"))

\* The email in small letters without the blanks around it.
Normalized(email) ==
    strip([i \in DOMAIN email |-> IF email[i] = "U" THEN "u" ELSE email[i]])

\* C25: AuthService.register adds a user only if the lowercased, trimmed
\* email is in the allow-list, when that is not empty, and no user is stored
\* under that email; otherwise it returns a failed result and adds no user.
\* Every stored email is lowercase and trimmed and no two users have emails
\* that differ only in letter case or surrounding blanks.
C25_RegisterNormalizedUnique ==
    /\ \A allowed_emails \in AllowLists, email \in Emails, password \in Passwords :
          LET o == AuthService_register(db, allowed_emails, email, password,
                                        THERAPIST)
              stored == \E id \in DOMAIN users :
                            users[id].email = Normalized(email)
              listed == allowed_emails = {} \/ Normalized(email) \in allowed_emails
          IN  /\ Ok(o) => /\ listed /\ ~stored
                          /\ DOMAIN o.db.users = DOMAIN users \cup {o.ret[2]}
                          /\ o.ret[2] \notin DOMAIN users
                          /\ o.db.users[o.ret[2]].email = Normalized(email)
                          /\ \A id \in DOMAIN users : o.db.users[id] = users[id]
              /\ (~listed \/ stored) => ~Ok(o)
              /\ ~Ok(o) => o.ret[2] = NULL /\ o.db.users = users
    /\ \A id \in DOMAIN users : users[id].email = Normalized(users[id].email)
    /\ \A i, j \in DOMAIN users :
          i # j => Normalized(users[i].email) # Normalized(users[j].email)

\* Two users are stored and a third registration, under an email that one
\* of them holds in other letters, is refused.
C25_Witness ==
    /\ DOMAIN users = {1, 2}
    /\ \E id \in DOMAIN users : users[id].email = <<"u">>
    /\ ~Ok(AuthService_register(db, {}, <<"U", " ">>, "p", THERAPIST))
    /\ ~Ok(AuthService_register(db, {<<"u">>}, <<"v">>, "p", THERAPIST))

\* C26: PatientService.delete with soft = False removes the person and every
\* session of that person, active or soft-deleted, leaves the other persons
\* and sessions as they were and appends one DELETE audit row; and every
\* stored session belongs to a person row that exists.
C26_HardDeleteCascades ==
    /\ \A s \in DOMAIN therapy_sessions :
          therapy_sessions[s].person_id \in DOMAIN persons
    /\ \A p \in query_active(persons), u \in UserIds :
          LET o == PatientService_delete(db, p, u, FALSE)
              others == {s \in DOMAIN therapy_sessions :
                            therapy_sessions[s].person_id # p}
          IN  /\ Ok(o)
              /\ DOMAIN o.db.persons = DOMAIN persons \ {p}
              /\ \A q \in DOMAIN o.db.persons : o.db.persons[q] = persons[q]
              /\ DOMAIN o.db.therapy_sessions = others
              /\ \A s \in others : o.db.therapy_sessions[s] = therapy_sessions[s]
              /\ AppendsOne(o, DELETE, "persons", p)

\* A person with an active and a soft-deleted session, next to another
\* person, is hard-deleted.
C26_Witness ==
    \E p \in query_active(persons) :
        /\ DOMAIN persons # {p}
        /\ \E s \in query_active(therapy_sessions) :
              therapy_sessions[s].person_id = p
        /\ \E s \in query_deleted(therapy_sessions) :
              therapy_sessions[s].person_id = p
        /\ Ok(PatientService_delete(db, p, 1, FALSE))

\* No active session belongs to a soft-deleted person.
NoActiveSessionOfDeletedPerson(d) ==
    \A s \in query_active(d.therapy_sessions) :
        d.therapy_sessions[s].person_id \notin query_deleted(d.persons)

\* Each service call, made on its own from the stored tables, keeps active
\* sessions away from soft-deleted persons.
SequentialCallsKeepOwnership ==
    NoActiveSessionOfDeletedPerson(db) =>
        /\ \A p \in PersonIds, u \in UserIds, soft \in BOOLEAN :
              /\ NoActiveSessionOfDeletedPerson(PatientService_delete(db, p, u, soft).db)
              /\ NoActiveSessionOfDeletedPerson(PatientService_restore(db, p, u).db)
        /\ \A p \in PersonIds, pending \in BOOLEAN :
              NoActiveSessionOfDeletedPerson(
                  SessionService_create(db, p, Today, 1, 1, pending, "None").db)

\* C27: in every reachable state no active session is owned by a
\* soft-deleted person, also when the checks and the try block of
\* SessionService.create are separated by a PatientService.delete(soft=True)
\* of the same person.
C27_NoActiveSessionOfDeletedPerson ==
    NoActiveSessionOfDeletedPerson(db)

\* The toggle calls on session s that have returned and not yet been answered.
Returned(s) ==
    {r \in RequestIds : in_flight[r].pc = "returned" /\ in_flight[r].session_id = s}

\* No toggle call is between its load and its return.
AllReturned == \A r \in RequestIds : in_flight[r].pc \in {"idle", "returned"}

\* Among the returned calls on s, the one that committed first, and last.
FirstCommitted(s) ==
    CHOOSE r \in Returned(s) : \A q \in Returned(s) : in_flight[r].seq <= in_flight[q].seq

LastCommitted(s) ==
    CHOOSE r \in Returned(s) : \A q \in Returned(s) : in_flight[q].seq <= in_flight[r].seq

\* The value s had before the calls: what the first to commit had loaded.
InitialPending(s) == in_flight[FirstCommitted(s)].pending

\* Every returned call's audit row is in the log, and nothing else is.
LogHoldsTheCalls ==
    Len(audit_logs) = Cardinality({r \in RequestIds : in_flight[r].pc = "returned"})

\* The UPDATE audit rows of session s.
ToggleRows(s) ==
    {i \in DOMAIN audit_logs :
        /\ audit_logs[i].action = UPDATE
        /\ audit_logs[i].table_name = "therapy_sessions"
        /\ audit_logs[i].record_id = s}

LatestToggleRow(s) ==
    audit_logs[CHOOSE i \in ToggleRows(s) : \A j \in ToggleRows(s) : j <= i]

\* After k returned calls the session has its initial value for even k and
\* the negation for odd k.
ParityHolds(s) ==
    therapy_sessions[s].pending =
        IF Cardinality(Returned(s)) % 2 = 0
        THEN InitialPending(s) ELSE ~InitialPending(s)

\* Every returned call on s but the first loaded what the call before it
\* had committed: no call loaded the session between another call's load
\* and commit.
NoStaleLoad(s) ==
    \A r \in Returned(s) \ {FirstCommitted(s)} :
        \E q \in Returned(s) :
            /\ in_flight[q].seq < in_flight[r].seq
            /\ \A m \in Returned(s) :
                  ~(in_flight[q].seq < in_flight[m].seq /\ in_flight[m].seq < in_flight[r].seq)
            /\ in_flight[r].pending = ~in_flight[q].pending

\* C28 (as the code behaves): once all toggle calls on an active session have
\* returned, the stored pending is the negation of what the call that
\* committed last had loaded (the last commit wins); the parity with the
\* number of calls holds when no call loaded a stale value; and the audit row
\* written by the call that committed last, not necessarily the most recent
\* row, carries the stored value.
C28_LastCommitWins ==
    \A s \in query_active(therapy_sessions) :
        (AllReturned /\ Returned(s) # {}) =>
            /\ therapy_sessions[s].pending = ~in_flight[LastCommitted(s)].pending
            /\ NoStaleLoad(s) => ParityHolds(s)
            /\ LogHoldsTheCalls =>
                  /\ audit_logs[in_flight[LastCommitted(s)].log_id].record_id = s
                  /\ audit_logs[in_flight[LastCommitted(s)].log_id].new_values.pending
                        = therapy_sessions[s].pending

\* Two calls on one session have returned, both had loaded the same value,
\* and the call that committed last wrote its audit row first.
C28_Witness ==
    \E s \in query_active(therapy_sessions) :
        /\ AllReturned
        /\ Cardinality(Returned(s)) = 2
        /\ LogHoldsTheCalls
        /\ \A r \in Returned(s) : in_flight[r].pending = InitialPending(s)
        /\ in_flight[LastCommitted(s)].log_id < Len(audit_logs)
        /\ therapy_sessions[s].pending = ~InitialPending(s)

\* C28: once k toggle calls on an active session have all returned, pending
\* is the initial value for even k and its negation for odd k, and the most
\* recently written UPDATE audit row of the session carries the stored
\* pending as its new value, also when the calls' steps interleave.
C28_TogglesKeepParityAndAudit ==
    \A s \in query_active(therapy_sessions) :
        (AllReturned /\ Returned(s) # {}) =>
            /\ ParityHolds(s)
            /\ (LogHoldsTheCalls /\ Cardinality(Returned(s)) = Len(audit_logs)) =>
                  LatestToggleRow(s).new_values.pending = therapy_sessions[s].pending

\* A soft delete of a person leaves the sessions of other persons as they are.
SoftDeleteLeavesOtherPersons ==
    \A p \in PersonIds, u \in UserIds :
        LET o == PatientService_delete(db, p, u, TRUE)
        IN  Ok(o) =>
                \A s \in DOMAIN therapy_sessions :
                    therapy_sessions[s].person_id # p =>
                        /\ s \in DOMAIN o.db.therapy_sessions
                        /\ o.db.therapy_sessions[s] = therapy_sessions[s]

\* C29: a successful PatientService.delete(soft=True) leaves every session of
\* the person that was already soft-deleted with the deleted_at and
\* deleted_by_id it had, and does not touch the sessions of other persons.
C29_CascadeOnlyToActiveSessions ==
    \A p \in PersonIds, u \in UserIds :
        LET o == PatientService_delete(db, p, u, TRUE)
        IN  Ok(o) =>
                \A s \in DOMAIN therapy_sessions :
                    (therapy_sessions[s].person_id # p \/ is_deleted(therapy_sessions[s])) =>
                        /\ s \in DOMAIN o.db.therapy_sessions
                        /\ o.db.therapy_sessions[s].deleted_at = therapy_sessions[s].deleted_at
                        /\ o.db.therapy_sessions[s].deleted_by_id = therapy_sessions[s].deleted_by_id

\* The request to delete person p, through the web route or the API route,
\* leaves every person and every session as stored.
DeleteRequestChangesNothing(p) ==
    /\ remove_person(db, login_session, "POST", p).db.persons = persons
    /\ remove_person(db, login_session, "POST", p).db.therapy_sessions = therapy_sessions
    /\ delete_patient(db, login_session, p).db.persons = persons
    /\ delete_patient(db, login_session, p).db.therapy_sessions = therapy_sessions

\* A delete request from a logged-in user whose role permits deleting
\* patients soft-deletes the active person it names.
PermittedUserDeletes ==
    (is_authenticated(db, login_session) /\ can_delete_patients(db, login_session)) =>
        \A p \in query_active(persons) :
            /\ is_deleted(remove_person(db, login_session, "POST", p).db.persons[p])
            /\ is_deleted(delete_patient(db, login_session, p).db.persons[p])

\* C30: a patient delete request, through the web route or the API route,
\* from a logged-in user whose role does not permit deleting patients (a
\* viewer) leaves every Person and TherapySession record unchanged.
C30_ViewerCannotDelete ==
    (is_authenticated(db, login_session) /\ ~can_delete_patients(db, login_session)) =>
        \A p \in PersonIds : DeleteRequestChangesNothing(p)

====
